---- MODULE Spec2Model ----
(***************************************************************************)
(* State-machine model of the mappa-node SDK core:                         *)
(*   - Transport.request()  (src/src/resources/transport.ts)               *)
(*   - Transport.streamSSE(), JobsResource.stream() and JobsResource.wait()*)
(*     (src/src/resources/transport.ts, src/unnamed/part_011)              *)
(*   - ReportsResource.createJob(), FeedbackResource.create() and          *)
(*     ReportRunHandle.wait()  (src/src/resources/reports.ts, feedback.ts) *)
(*   - WebhooksResource  (src/src/resources/webhooks.ts)                   *)
(* The specifications of the module: SpecRequest runs one                  *)
(* Transport.request() call, Spec runs one Jobs.stream() / Jobs.wait()     *)
(* call against a nondeterministic server, SpecAny one call of either,     *)
(* SpecTelemetry a request with a throwing telemetry hook, SpecClient and  *)
(* SpecHandle the resource calls built on them, SpecWebhooks one call of   *)
(* verifySignature or parseEvent, SpecWaitFair one Jobs.wait() call        *)
(* against a server that never stops, under fair scheduling,               *)
(* SpecRequestFair one Transport.request() call under fair scheduling, and *)
(* SpecOnEvent one Jobs.stream() / Jobs.wait() call whose onEvent callback *)
(* may throw.                                                              *)
(***************************************************************************)
EXTENDS Integers, Sequences, FiniteSets, TLC

VARIABLES
    \* ---- Transport.request() ----
    req,            \* the RequestOptions: [retryable, hasSignal, method,
                    \* idempotencyKey, requestId]
    optsMaxRetries, \* this.opts.maxRetries (client configuration)
    hookThrows,     \* which hook of this.opts.telemetry throws when called
    rpc,            \* position of request(): init | fetch | sleep | resolved | threw
                    \* ("none": no request() call is made)
    attempt,        \* the loop variable of request()
    reqAborted,     \* req.signal.aborted
    nFetch,         \* number of fetchImpl calls made by this request()
    lastOutcome,    \* how the last fetch attempt ended
    sleepMs,        \* the delay handed to setTimeout before the next attempt
    backoffUsed,    \* whether jitter(backoffMs(..)) produced sleepMs
    rerr,           \* the error request() threw
    rres,           \* the TransportResponse request() resolved with
    headers,        \* the headers object request() built before its loop
    sent,           \* the headers handed to fetchImpl, one entry per call
    \* ---- the caller of Jobs.stream() / Jobs.wait() ----
    mode,           \* which operation the caller invoked: "stream" | "wait"
    hasSignal,      \* the caller passed opts.signal
    callerAborted,  \* opts.signal.aborted (the caller's signal)
    \* ---- JobsResource.wait() ----
    wpc,            \* init | running | resolved | rejected
    ctrlAborted,    \* controller.signal.aborted (wait's own controller)
    waitTimer,      \* timeoutId: none | armed | fired | cleared
    wres,           \* the Job wait() returned
    werr,           \* the error wait() rejected with
    \* ---- JobsResource.stream() over Transport.streamSSE() ----
    gpc,            \* notStarted | connecting | reading | callback | yielded |
                    \* backoff | done | threw
    retries,        \* let retries
    lastEventId,    \* let lastEventId
    sseEvent,       \* the loop variable sseEvent, alive during one iteration
    connAborted,    \* streamSSE's controller.signal.aborted, current connection
    bodyClosed,     \* the response body closed while stream() was at its yield
    gerr,           \* the error stream() threw
    yielded,        \* the JobEvents yielded so far
    onEventCalls,   \* the JobEvents handed to opts.onEvent so far
    nConns,         \* number of SSE fetch calls made, up to MaxConns
    sentLastEventId,\* Last-Event-ID header of the latest SSE fetch
    nFrames,        \* number of SSE frames received
    \* ---- history ----
    lastFrameEvent, \* the event field of the last frame received
    lastFrameId,    \* the id field of the last frame received
    abortedInBackoff, \* stream()'s signal was aborted during a backoff sleep
    nConnsAborted,  \* SSE fetch calls made while stream()'s signal was aborted
    failsSinceYield,\* connection attempts of stream() that failed or were
                    \* dropped since the last JobEvent was yielded
    \* ---- a call of reports.createJob, feedback.create, handle.wait,
    \*      webhooks.verifySignature or webhooks.parseEvent ----
    op,             \* which one: createJob | feedbackCreate | handleWait |
                    \* verifySignature | parseEvent
                    \* ("none": no such call is made)
    arg,            \* its argument
    cpc,            \* its position: called | importKey | sign | resolved | threw
    cerr,           \* the error it threw
    cres,           \* the value it returned
    requested,      \* the method and path it called Transport.request with
    checksDone      \* the checks verifySignature has made so far, in order

reqVars == <<req, optsMaxRetries, hookThrows, rpc, attempt, reqAborted, nFetch,
             lastOutcome, sleepMs, backoffUsed, rerr, rres, headers, sent>>

callerVars == <<mode, hasSignal, callerAborted>>
waitVars == <<wpc, ctrlAborted, waitTimer, wres, werr>>
histVars == <<lastFrameEvent, lastFrameId, abortedInBackoff, nConnsAborted>>
jobVars == <<callerVars, waitVars,
             <<gpc, retries, lastEventId, sseEvent, connAborted, bodyClosed, gerr, yielded,
               onEventCalls, nConns, sentLastEventId, nFrames>>,
             histVars, failsSinceYield>>

clientVars == <<op, arg, cpc, cerr, cres, requested, checksDone>>

vars == <<reqVars, jobVars, clientVars>>

-----------------------------------------------------------------------------
(* Bounds of the model *)

\* largest configured maxRetries explored
MaxCfgRetries == 2

\* SSE frames the server sends during one stream() / wait() call
MaxFrames == 3

-----------------------------------------------------------------------------
(* Values *)

NoMs == -1                 \* "undefined" for a millisecond value
NoErr == [name |-> "none"]
NoRes == [status |-> 0]
NoOutcome == [kind |-> "none"]

Max(a, b) == IF a >= b THEN a ELSE b
Min(a, b) == IF a <= b THEN a ELSE b

RECURSIVE Pow2(_)
Pow2(n) == IF n <= 0 THEN 1 ELSE 2 * Pow2(n - 1)

\* Retry-After header values the server may send ("<null>": header absent)
NoHeader == "<null>"

\* the X-Request-Id and Idempotency-Key entries of a headers object
NoHeaders == [xRequestId |-> NoHeader, idempotencyKey |-> NoHeader]

\* What one fetch attempt can end in: a response (of one of the HTTP statuses
\* the server may answer with, a 429 with or without a Retry-After header),
\* or fetch rejecting
Responses ==
    {[kind |-> "response", status |-> s, retryAfter |-> NoHeader] :
        s \in {200, 401, 403, 404, 422, 429, 500, 503}}
      \cup {[kind |-> "response", status |-> 429, retryAfter |-> h] :
              h \in {NoHeader, "", "Wed, 21 Oct 2026 07:28:00 GMT", "-1", "0", "5"}}
      \cup {[kind |-> "response", status |-> 503, retryAfter |-> "5"]}

\* Math.random() in jitter(), as the percentage 100 * r of r in [0.8, 1.2)
JitterPcts == {80, 100, 119}


\* ---- jobs, SSE frames, JobEvents ----

Undefined == "<undefined>"

\* the jobId argument of stream() / wait()
WaitedJobId == "job_1"

\* wait()'s timeoutMs (opts.timeoutMs ?? 5 * 60_000)
timeoutMs == 300000

NoJobError == [code |-> Undefined, message |-> Undefined]
NoJob == [id |-> Undefined, status |-> Undefined, error |-> NoJobError,
          reportId |-> Undefined]
Job(i, st, e, r) == [id |-> i, status |-> st, error |-> e, reportId |-> r]

RunningJob == Job("job_1", "running", NoJobError, Undefined)

\* the job snapshots a terminal frame may carry
TerminalJobs ==
    { Job("job_1", "succeeded", NoJobError, "rep_1"),
      Job("job_1", "succeeded", NoJobError, "rep_2"),
      Job("job_1", "succeeded", NoJobError, Undefined),
      Job("job_1", "failed", [code |-> "processing_failed", message |-> "boom"], Undefined),
      Job("job_2", "failed", [code |-> "quota", message |-> "no credits"], Undefined),
      Job("job_1", "failed", NoJobError, Undefined),
      Job("job_2", "canceled", NoJobError, Undefined),
      RunningJob,
      Job("job_1", "queued", NoJobError, Undefined) }

\* SSE frame ids (Undefined: the frame has no id: line)
EventIds == {Undefined, "e1", "e2"}

Frame(i, ev, j, e) == [id |-> i, event |-> ev, data |-> [job |-> j, error |-> e]]
NoFrame == Frame(Undefined, Undefined, NoJob, NoJobError)

\* the frames parseSSEStream can hand to stream()
Frames ==
    {Frame(i, ev, RunningJob, NoJobError) :
        i \in EventIds, ev \in {"status", "stage", "message"}}
      \cup {Frame(i, "heartbeat", NoJob, NoJobError) : i \in EventIds}
      \cup {Frame(i, "terminal", j, NoJobError) : i \in EventIds, j \in TerminalJobs}
      \cup {Frame(i, "error", NoJob, e) :
              i \in EventIds,
              e \in {NoJobError, [code |-> "job_not_found", message |-> "Job not found"]}}

\* ---- arguments of reports.createJob and feedback.create ----

\* typeof v, for the values a mediaId is drawn from
TypeOf(v) ==
    CASE v = Undefined -> "undefined"
      [] v = "<number 42>" -> "number"
      [] OTHER -> "string"

\* req.media: a value that is no object, or an object with url and mediaId
MediaObj(u, i) == [type |-> "object", url |-> u, mediaId |-> i]
Medias ==
    {[type |-> t, url |-> Undefined, mediaId |-> Undefined] :
        t \in {"undefined", "null", "string"}}
      \cup {MediaObj(u, i) :
              u \in {Undefined, "https://example.com/file.wav"},
              i \in {Undefined, "", "<number 42>", "media_1"}}

NoArg == [kind |-> "none"]

\* nothing returned (yet)
NoResult == [kind |-> "none"]

\* req.idempotencyKey and req.requestId as the caller may pass them
CallerKeys == {Undefined, "idem_caller"}
CallerRequestIds == {Undefined, "req_caller"}

CreateJobArgs ==
    {[kind |-> "createJob", media |-> m, hasSignal |-> FALSE,
      idempotencyKey |-> k, requestId |-> i] :
        m \in Medias, k \in CallerKeys, i \in CallerRequestIds}

FeedbackArgs ==
    {[kind |-> "feedbackCreate", reportId |-> r, jobId |-> j, hasSignal |-> h,
      idempotencyKey |-> k, requestId |-> i] :
        r \in {Undefined, "", "rep_1"}, j \in {Undefined, "", "job_1"},
        h \in BOOLEAN, k \in CallerKeys, i \in CallerRequestIds}

\* the opts of jobs.cancel(jobId, opts)
CancelArgs ==
    {[kind |-> "jobsCancel", hasSignal |-> h, idempotencyKey |-> k, requestId |-> i] :
        h \in BOOLEAN, k \in CallerKeys, i \in CallerRequestIds}

\* ---- arguments of webhooks.verifySignature and webhooks.parseEvent ----

\* a JavaScript value that is a string (a sequence of characters), undefined,
\* or an array whose element 0 is first
JsUndefined == [type |-> "undefined"]
JsString(chars) == [type |-> "string", str |-> chars]
JsArray(first) == [type |-> "array", first |-> first]

\* the mappa-signature header as the API sends it: t=<ts>,v1=<hex>
SigHeader(t, sig) == <<"t", "=">> \o t \o <<",", "v", "1", "=">> \o sig

\* params.toleranceSec not given
NoSec == -1

\* timestamps of the header, against a clock reading NowSec
NowSec == 1000
Ts1000 == <<"1", "0", "0", "0">>

\* the signature the sender computes for body <<"p">> at timestamp t under
\* secret <<"k">> (computeSignature of the tests)
SentSig(t) == <<"k", "#">> \o t \o <<".", "p">>

\* mappa-signature header values
SigHeaderStrings ==
    {SigHeader(t, SentSig(t)) :
        t \in {Ts1000, <<"6", "9", "9">>, <<"7", "0", "0">>,
               <<"1", "3", "0", "1">>, <<"1", "5", "0", "0">>}}
      \cup { <<>>,
             <<"i", "n", "v", "a", "l", "i", "d">>,            \* invalid
             <<"t", "=", "1", "0", "0", "0">>,                  \* t=1000
             <<"v", "1", "=", "a", "b">>,                       \* v1=ab
             <<"t", "=", ",", "v", "1", "=", "a", "b">>,        \* t=,v1=ab
             <<"t", "=", "1", "0", "0", "0", ",", "v", "1", "=">>,   \* t=1000,v1=
             <<"t", "=", " ", ",", "v", "1", "=", "a", "b">>,   \* t= ,v1=ab
             <<"t", "=", "a", "b", ",", "v", "1", "=", "a", "b">>,   \* t=ab,v1=ab
             <<"t", "=", "1", "0", "0", "0", ",", "v", "1", "=", "a", "b">>,
             <<"v", "1", "=", "a", "b", ",", " ", "t", " ", "=", " ", "1", "0", "0", "0">>,
                                                                \* v1=ab, t = 1000
             <<"t", "=", "1", "0", "0", "0", ",", "v", "1", "=", "a", "=", "b">> }
                                                                \* t=1000,v1=a=b

\* the value stored under the header's key in params.headers
SigHeaderValues ==
    {JsUndefined, JsArray(JsUndefined)}
      \cup {JsString(h) : h \in SigHeaderStrings}
      \cup {JsArray(JsString(h)) :
              h \in {<<>>, <<"v", "1", "=", "a", "b">>, SigHeader(Ts1000, SentSig(Ts1000))}}

\* the arguments of verifySignature: the key under which params.headers
\* holds the header, its value, the raw body, the secret (the one the sender
\* signed with, or another one) and the tolerance
VerifyArgs ==
    {[kind |-> "verifySignature", headerName |-> n, headerValue |-> v,
      payload |-> b, secret |-> k, toleranceSec |-> tol] :
        n \in {"mappa-signature", "Mappa-Signature", "x-signature"},
        v \in SigHeaderValues, b \in {<<"p">>, <<"q">>},
        k \in {<<"k">>, <<"w">>}, tol \in {NoSec, 600}}

\* a field of a JSON object: absent, or a value of some JSON type
Absent == "<absent>"
JsonFieldValues == {Absent, "<string>", "<number>"}

\* what the payload text of parseEvent is the JSON of ("invalid": of nothing)
JsonPayloads ==
    {[json |-> "object", id |-> i, type |-> ty, timestamp |-> ts,
      createdAt |-> ca, data |-> d] :
        i \in JsonFieldValues, ty \in JsonFieldValues, ts \in JsonFieldValues,
        ca \in JsonFieldValues, d \in JsonFieldValues}
      \cup {[json |-> k, id |-> Absent, type |-> Absent, timestamp |-> Absent,
             createdAt |-> Absent, data |-> Absent] :
                k \in {"invalid", "null", "string", "number", "array"}}

ParseEventArgs == {[kind |-> "parseEvent", payload |-> p] : p \in JsonPayloads}


Last(q) == q[Len(q)]

-----------------------------------------------------------------------------
(* Pure functions of transport.ts and utils *)

\* Number(ra): [finite, val]; NaN is [finite |-> FALSE]
NumberOf(s) ==
    CASE s = "-1" -> [finite |-> TRUE, val |-> -1]
      [] s = "0"  -> [finite |-> TRUE, val |-> 0]
      [] s = "5"  -> [finite |-> TRUE, val |-> 5]
      [] s = ""   -> [finite |-> TRUE, val |-> 0]
      [] OTHER    -> [finite |-> FALSE, val |-> 0]

\* res.ok
ResOk(status) == status >= 200 /\ status <= 299

\* the retry-after part of coerceApiError
ParseRetryAfter(ra) ==
    IF ra # NoHeader /\ ra # ""
    THEN LET sec == NumberOf(ra)
         IN  IF sec.finite /\ sec.val >= 0 THEN sec.val * 1000 ELSE NoMs
    ELSE NoMs

coerceApiError(status, ra) ==
    IF status = 401 \/ status = 403
    THEN [name |-> "AuthError", status |-> status, retryAfterMs |-> NoMs]
    ELSE IF status = 422
    THEN [name |-> "ValidationError", status |-> status, retryAfterMs |-> NoMs]
    ELSE IF status = 429
    THEN [name |-> "RateLimitError", status |-> status,
          retryAfterMs |-> ParseRetryAfter(ra)]
    ELSE [name |-> "ApiError", status |-> status, retryAfterMs |-> NoMs]

\* errors that are not API errors: status 0
ThrownError(n) == [name |-> n, status |-> 0, retryAfterMs |-> NoMs]
makeAbortError == ThrownError("AbortError")

\* the telemetry hook that throws ("none": no hook throws), and what it throws
HookError == ThrownError("HookError")

\* err instanceof ApiError
IsApiError(err) ==
    err.name \in {"ApiError", "AuthError", "ValidationError", "RateLimitError"}

\* shouldRetry with every API error retried (no status test)
shouldRetry_AnyApiError(opts, err) ==
    IF ~opts.retryable THEN [retry |-> FALSE, retryAfterMs |-> NoMs]
    ELSE IF err.name = "RateLimitError"
    THEN [retry |-> TRUE, retryAfterMs |-> err.retryAfterMs]
    ELSE IF IsApiError(err)
    THEN [retry |-> TRUE, retryAfterMs |-> NoMs]
    ELSE IF err.name = "TypeError"
    THEN [retry |-> TRUE, retryAfterMs |-> NoMs]
    ELSE [retry |-> FALSE, retryAfterMs |-> NoMs]

\* shouldRetry without the opts.retryable test
shouldRetry_IgnoreRetryable(opts, err) ==
    IF err.name = "RateLimitError"
    THEN [retry |-> TRUE, retryAfterMs |-> err.retryAfterMs]
    ELSE IF IsApiError(err)
    THEN [retry |-> err.status >= 500 /\ err.status <= 599, retryAfterMs |-> NoMs]
    ELSE IF err.name = "TypeError"
    THEN [retry |-> TRUE, retryAfterMs |-> NoMs]
    ELSE [retry |-> FALSE, retryAfterMs |-> NoMs]

\* shouldRetry without the TypeError (network failure) case
shouldRetry_NoNetworkRetry(opts, err) ==
    IF ~opts.retryable THEN [retry |-> FALSE, retryAfterMs |-> NoMs]
    ELSE IF err.name = "RateLimitError"
    THEN [retry |-> TRUE, retryAfterMs |-> err.retryAfterMs]
    ELSE IF IsApiError(err)
    THEN [retry |-> err.status >= 500 /\ err.status <= 599, retryAfterMs |-> NoMs]
    ELSE [retry |-> FALSE, retryAfterMs |-> NoMs]

\* shouldRetry taking an abort for a network failure
shouldRetry_AbortIsNetworkFailure(opts, err) ==
    IF ~opts.retryable THEN [retry |-> FALSE, retryAfterMs |-> NoMs]
    ELSE IF err.name = "RateLimitError"
    THEN [retry |-> TRUE, retryAfterMs |-> err.retryAfterMs]
    ELSE IF IsApiError(err)
    THEN [retry |-> err.status >= 500 /\ err.status <= 599, retryAfterMs |-> NoMs]
    ELSE IF err.name \in {"TypeError", "AbortError"}
    THEN [retry |-> TRUE, retryAfterMs |-> NoMs]
    ELSE [retry |-> FALSE, retryAfterMs |-> NoMs]

shouldRetry(opts, err) ==
    IF ~opts.retryable THEN [retry |-> FALSE, retryAfterMs |-> NoMs]
    ELSE IF err.name = "RateLimitError"
    THEN [retry |-> TRUE, retryAfterMs |-> err.retryAfterMs]
    ELSE IF IsApiError(err)
    THEN [retry |-> err.status >= 500 /\ err.status <= 599, retryAfterMs |-> NoMs]
    ELSE IF err.name = "TypeError"
    THEN [retry |-> TRUE, retryAfterMs |-> NoMs]
    ELSE [retry |-> FALSE, retryAfterMs |-> NoMs]

backoffMs(att, baseMs, maxMs) == Min(baseMs * Pow2(Max(0, att - 1)), maxMs)

\* jitter(ms) with Math.random() drawn as pct
jitter(ms, pct) == (ms * pct) \div 100

\* const maxRetries = Math.max(0, this.opts.maxRetries)
maxRetries == Max(0, optsMaxRetries)

\* randomId(prefix): `${prefix}_${createId()}`
randomId(prefix) == IF prefix = "req" THEN "req_<random>" ELSE "idem_<random>"

\* the headers request() builds before its loop: X-Request-Id from
\* req.requestId ?? randomId("req"), Idempotency-Key if req.idempotencyKey
RequestHeaders(r) ==
    [xRequestId |-> IF r.requestId = Undefined THEN randomId("req") ELSE r.requestId,
     idempotencyKey |-> IF r.idempotencyKey # Undefined /\ r.idempotencyKey # ""
                        THEN r.idempotencyKey ELSE NoHeader]

\* the Idempotency-Key header sent with the first attempt only
HeadersSent_KeyOnFirstAttempt(h, att) ==
    IF att = 1 THEN h ELSE [h EXCEPT !.idempotencyKey = NoHeader]

\* the headers of the fetchImpl call of attempt att: the headers object
HeadersSent(h, att) == h

\* RetryDelay with || in place of ??: a retryAfterMs of 0 falls through
RetryDelay_FalsyZero(decision, att, pct) ==
    IF decision.retryAfterMs # NoMs /\ decision.retryAfterMs # 0
    THEN [ms |-> decision.retryAfterMs, backoff |-> FALSE]
    ELSE [ms |-> jitter(backoffMs(att, 500, 4000), pct), backoff |-> TRUE]

\* decision.retryAfterMs ?? jitter(backoffMs(attempt, 500, 4000))
RetryDelay(decision, att, pct) ==
    IF decision.retryAfterMs # NoMs
    THEN [ms |-> decision.retryAfterMs, backoff |-> FALSE]
    ELSE [ms |-> jitter(backoffMs(att, 500, 4000), pct), backoff |-> TRUE]

\* RetryNow off by one: one retry more than configured
RetryNow_OffByOne(decision, att) == att <= maxRetries + 1 /\ decision.retry

\* RetryNow without the test of the retry budget
RetryNow_NoBudgetTest(decision, att) == decision.retry

\* the retry test of the non-2xx branch and of the catch block
RetryNow(decision, att) == att <= maxRetries /\ decision.retry


-----------------------------------------------------------------------------
(* Pure functions of JobsResource (part_011) and of the SSE part of Transport *)

\* const maxRetries = 3 in stream()
StreamMaxRetries == 3

MappaError(msg, code) == [name |-> "MappaError", message |-> msg, code |-> code]

StreamError(msg, lid, count, cause) ==
    [name |-> "StreamError", message |-> msg, jobId |-> WaitedJobId,
     lastEventId |-> lid, retryCount |-> count, cause |-> cause]

JobFailedError(jid, msg, code) ==
    [name |-> "JobFailedError", jobId |-> jid, message |-> msg, code |-> code]

JobCanceledError(jid, msg) ==
    [name |-> "JobCanceledError", jobId |-> jid, message |-> msg]

\* `Timed out waiting for job ${jobId} after ${timeoutMs}ms`
TimedOutMessage ==
    "Timed out waiting for job " \o WaitedJobId \o " after "
      \o ToString(timeoutMs) \o "ms"

\* x ?? dflt
OrElse(x, dflt) == IF x = Undefined THEN dflt ELSE x

\* streamSSE sending no Last-Event-ID header at all
LastEventIdHeader_Never(lid) == NoHeader

\* if (opts?.lastEventId) headers["Last-Event-ID"] = opts.lastEventId
LastEventIdHeader(lid) == IF lid # Undefined /\ lid # "" THEN lid ELSE NoHeader

\* the MappaError thrown for an SSE frame with event == "error"
SSEErrorOf(f) ==
    MappaError(OrElse(f.data.error.message, "Unknown SSE error"), f.data.error.code)

\* frames with an event name stream() does not know skipped like heartbeats
SkipsFrame_UnknownToo(f) == f.event \in {"heartbeat", "message"}

\* no heartbeat test: every frame is mapped and yielded
SkipsFrame_Never(f) == FALSE

\* if (sseEvent.event === "heartbeat") continue
SkipsFrame(f) == f.event = "heartbeat"

mapSSEToJobEvent(f) ==
    CASE f.event = "status" ->
           [type |-> "status", job |-> f.data.job, stage |-> Undefined]
      [] f.event = "stage" ->
           [type |-> "stage", job |-> f.data.job, stage |-> "extracting"]
      [] f.event = "terminal" ->
           [type |-> "terminal", job |-> f.data.job, stage |-> Undefined]
      [] OTHER ->
           [type |-> "status", job |-> f.data.job, stage |-> Undefined]

\* a heartbeat frame running into the retries = 0 at the end of the loop body
RetriesAfterHeartbeat_Reset(r) == 0

\* the continue of a heartbeat frame skips the rest of the loop body
RetriesAfterHeartbeat(r) == r

\* the retry counter left as it is after an event
RetriesAfterEvent_Kept(r) == r

\* retries = 0, at the end of the loop body of a yielded event
RetriesAfterEvent(r) == 0

\* no return after a terminal event: the loop goes on
ExitsAfter_Never(f) == FALSE

\* if (sseEvent.event === "terminal") return, after the yield
ExitsAfter(f) == f.event = "terminal"

\* the catch block without the opts.signal.aborted test
StreamCatch_NoAbortTest(error, r, lid, aborted) ==
    IF r + 1 >= StreamMaxRetries
    THEN [throws |-> TRUE,
          err |-> StreamError("Stream connection failed", lid, r + 1, error),
          retries |-> r + 1]
    ELSE [throws |-> FALSE, err |-> NoErr, retries |-> r + 1]

\* the catch block with the opts.signal.aborted test moved after the
\* retry-count test
StreamCatch_AbortTestLate(error, r, lid, aborted) ==
    IF r + 1 >= StreamMaxRetries
    THEN [throws |-> TRUE,
          err |-> StreamError("Stream connection failed", lid, r + 1, error),
          retries |-> r + 1]
    ELSE IF aborted
    THEN [throws |-> TRUE, err |-> error, retries |-> r]
    ELSE [throws |-> FALSE, err |-> NoErr, retries |-> r + 1]

\* the catch block testing the error in place of the signal: an AbortError
\* is rethrown whoever aborted
StreamCatch_RethrowsAbortError(error, r, lid, aborted) ==
    IF aborted \/ error.name = "AbortError"
    THEN [throws |-> TRUE, err |-> error, retries |-> r]
    ELSE IF r + 1 >= StreamMaxRetries
    THEN [throws |-> TRUE,
          err |-> StreamError("Stream connection failed", lid, r + 1, error),
          retries |-> r + 1]
    ELSE [throws |-> FALSE, err |-> NoErr, retries |-> r + 1]

\* the catch block of stream(): rethrow, wrap in StreamError, or back off
StreamCatch(error, r, lid, aborted) ==
    IF aborted
    THEN [throws |-> TRUE, err |-> error, retries |-> r]
    ELSE IF r + 1 >= StreamMaxRetries
    THEN [throws |-> TRUE,
          err |-> StreamError("Stream connection failed", lid, r + 1, error),
          retries |-> r + 1]
    ELSE [throws |-> FALSE, err |-> NoErr, retries |-> r + 1]

\* StreamEnded without the retries++: a clean end is not counted
StreamEnded_NotCounted(r, lid) == [throws |-> FALSE, err |-> NoErr, retries |-> r]

\* StreamEnded reporting the retry count held before the increment
StreamEnded_StaleCount(r, lid) ==
    IF r + 1 < StreamMaxRetries
    THEN [throws |-> FALSE, err |-> NoErr, retries |-> r + 1]
    ELSE [throws |-> TRUE,
          err |-> StreamError("Failed to get status", lid, r, NoErr),
          retries |-> r + 1]

\* the stream ended without a terminal event: retries++, then back off, or
\* leave the while loop and throw the final StreamError
StreamEnded(r, lid) ==
    IF r + 1 < StreamMaxRetries
    THEN [throws |-> FALSE, err |-> NoErr, retries |-> r + 1]
    ELSE [throws |-> TRUE,
          err |-> StreamError("Failed to get status", lid, StreamMaxRetries, NoErr),
          retries |-> r + 1]

\* wait() returning the job of any terminal event
WaitOnEvent_AnyTerminal(ev) ==
    IF ev.type = "terminal"
    THEN [kind |-> "return", job |-> ev.job, err |-> NoErr]
    ELSE [kind |-> "continue", job |-> NoJob, err |-> NoErr]

\* wait() returning the job of every terminal event that is neither failed
\* nor canceled
WaitOnEvent_ReturnsUnlessFailed(ev) ==
    IF ev.type = "terminal" /\ ev.job.status = "failed"
    THEN [kind |-> "throw", job |-> NoJob,
          err |-> JobFailedError(WaitedJobId,
                                 OrElse(ev.job.error.message, "Job failed"),
                                 ev.job.error.code)]
    ELSE IF ev.type = "terminal" /\ ev.job.status = "canceled"
    THEN [kind |-> "throw", job |-> NoJob,
          err |-> JobCanceledError(WaitedJobId, "Job canceled")]
    ELSE IF ev.type = "terminal"
    THEN [kind |-> "return", job |-> ev.job, err |-> NoErr]
    ELSE [kind |-> "continue", job |-> NoJob, err |-> NoErr]

\* wait() building its errors from the event's job.id, not from jobId
WaitOnEvent_EventJobId(ev) ==
    IF ev.type = "terminal" /\ ev.job.status = "succeeded"
    THEN [kind |-> "return", job |-> ev.job, err |-> NoErr]
    ELSE IF ev.type = "terminal" /\ ev.job.status = "failed"
    THEN [kind |-> "throw", job |-> NoJob,
          err |-> JobFailedError(ev.job.id,
                                 OrElse(ev.job.error.message, "Job failed"),
                                 ev.job.error.code)]
    ELSE IF ev.type = "terminal" /\ ev.job.status = "canceled"
    THEN [kind |-> "throw", job |-> NoJob,
          err |-> JobCanceledError(ev.job.id, "Job canceled")]
    ELSE [kind |-> "continue", job |-> NoJob, err |-> NoErr]

\* the body of wait()'s for-await loop for one JobEvent
WaitOnEvent(ev) ==
    IF ev.type = "terminal" /\ ev.job.status = "succeeded"
    THEN [kind |-> "return", job |-> ev.job, err |-> NoErr]
    ELSE IF ev.type = "terminal" /\ ev.job.status = "failed"
    THEN [kind |-> "throw", job |-> NoJob,
          err |-> JobFailedError(WaitedJobId,
                                 OrElse(ev.job.error.message, "Job failed"),
                                 ev.job.error.code)]
    ELSE IF ev.type = "terminal" /\ ev.job.status = "canceled"
    THEN [kind |-> "throw", job |-> NoJob,
          err |-> JobCanceledError(WaitedJobId, "Job canceled")]
    ELSE [kind |-> "continue", job |-> NoJob, err |-> NoErr]

\* a finally block that leaves the timer as it is
ClearTimeout_Omitted(t) == t

\* clearTimeout(timeoutId)
ClearTimeout(t) == IF t = "armed" THEN "cleared" ELSE t

-----------------------------------------------------------------------------
(* Pure functions of ReportsResource (reports.ts) and FeedbackResource *)

\* !!v for a string-or-undefined value
Truthy(v) == v # Undefined /\ v # ""

\* validateMedia without the media.url test
validateMedia_AcceptsUrl(m) ==
    IF m.type # "object"
    THEN MappaError("media must be an object", Undefined)
    ELSE IF TypeOf(m.mediaId) # "string" \/ ~Truthy(m.mediaId)
    THEN MappaError("media.mediaId must be a non-empty string", Undefined)
    ELSE NoErr

\* validateMedia(media): the error it throws, NoErr when it returns
validateMedia(m) ==
    IF m.type # "object"
    THEN MappaError("media must be an object", Undefined)
    ELSE IF m.url # Undefined
    THEN MappaError("media.url is not supported; pass { mediaId } or use createJobFromUrl()",
                    Undefined)
    ELSE IF TypeOf(m.mediaId) # "string" \/ ~Truthy(m.mediaId)
    THEN MappaError("media.mediaId must be a non-empty string", Undefined)
    ELSE NoErr

\* the test at the head of feedback.create: the error it throws, or NoErr
validateFeedback(a) ==
    IF Truthy(a.reportId) = Truthy(a.jobId)
    THEN [name |-> "Error", message |-> "Provide exactly one of reportId or jobId",
          code |-> Undefined]
    ELSE NoErr

\* handle.wait with the reportId test dropped: any resolved job is fetched
ReportToGet_NoTest(job) == [err |-> NoErr, reportId |-> job.reportId]

\* handle.wait after jobs.wait returned job: throw, or get(job.reportId)
ReportToGet(job) ==
    IF ~Truthy(job.reportId)
    THEN [err |-> MappaError("Job " \o WaitedJobId
                               \o " succeeded but no reportId was returned",
                             Undefined),
          reportId |-> Undefined]
    ELSE [err |-> NoErr, reportId |-> job.reportId]

-----------------------------------------------------------------------------
(* Pure functions of WebhooksResource (webhooks.ts) *)

\* name.toLowerCase(), for the header names used
ToLowerCase(n) == IF n = "Mappa-Signature" THEN "mappa-signature" ELSE n

\* v is falsy: undefined or the empty string (an array is truthy)
Falsy(v) == v.type = "undefined" \/ (v.type = "string" /\ v.str = <<>>)

\* headerValue(headers, "mappa-signature") for headers = { [name]: value }
headerValue(name, value) ==
    IF ToLowerCase(name) # "mappa-signature" THEN JsUndefined
    ELSE IF Falsy(value) THEN JsUndefined
    ELSE IF value.type = "array" THEN value.first
    ELSE value

\* s.split(sep) for a one-character separator: the pieces, in order
RECURSIVE SplitFrom(_, _, _, _)
SplitFrom(s, sep, i, piece) ==
    IF i > Len(s) THEN <<piece>>
    ELSE IF s[i] = sep THEN <<piece>> \o SplitFrom(s, sep, i + 1, <<>>)
    ELSE SplitFrom(s, sep, i + 1, Append(piece, s[i]))

Split(s, sep) == SplitFrom(s, sep, 1, <<>>)

\* s.trim()
RECURSIVE TrimStart(_)
TrimStart(s) == IF s # <<>> /\ Head(s) = " " THEN TrimStart(Tail(s)) ELSE s

RECURSIVE TrimEnd(_)
TrimEnd(s) ==
    IF s # <<>> /\ s[Len(s)] = " " THEN TrimEnd(SubSeq(s, 1, Len(s) - 1)) ELSE s

Trim(s) == TrimEnd(TrimStart(s))

\* the loop of parseSig: out after the parts from index i on were read
RECURSIVE SigParts(_, _, _)
SigParts(parts, i, out) ==
    IF i > Len(parts) THEN out
    ELSE LET kv == Split(parts[i], "=")
             k == kv[1]
             v == IF Len(kv) >= 2 THEN kv[2] ELSE <<>>
         IN  IF k # <<>> /\ v # <<>>
             THEN SigParts(parts, i + 1,
                           IF Trim(k) = <<"t">> THEN [out EXCEPT !.t = Trim(v)]
                           ELSE IF Trim(k) = <<"v", "1">> THEN [out EXCEPT !.v1 = Trim(v)]
                           ELSE out)
             ELSE SigParts(parts, i + 1, out)

InvalidFormat == [name |-> "Error", message |-> "Invalid signature format"]

\* parseSig that asks for the t component only
parseSig_NoV1Test(h) ==
    LET out == SigParts(Split(h, ","), 1, [t |-> <<>>, v1 |-> <<>>])
    IN  IF out.t = <<>>
        THEN [err |-> InvalidFormat, t |-> <<>>, v1 |-> <<>>]
        ELSE [err |-> NoErr, t |-> out.t, v1 |-> out.v1]

\* parseSig(h): the error it throws, or { t, v1 } (a component not set, or
\* set to the empty string, is falsy)
parseSig(h) ==
    LET out == SigParts(Split(h, ","), 1, [t |-> <<>>, v1 |-> <<>>])
    IN  IF out.t = <<>> \/ out.v1 = <<>>
        THEN [err |-> InvalidFormat, t |-> <<>>, v1 |-> <<>>]
        ELSE [err |-> NoErr, t |-> out.t, v1 |-> out.v1]

DigitValue(c) ==
    CASE c = "0" -> 0 [] c = "1" -> 1 [] c = "2" -> 2 [] c = "3" -> 3
      [] c = "4" -> 4 [] c = "5" -> 5 [] c = "6" -> 6 [] c = "7" -> 7
      [] c = "8" -> 8 [] c = "9" -> 9

RECURSIVE DecimalValue(_, _)
DecimalValue(s, acc) ==
    IF s = <<>> THEN acc ELSE DecimalValue(Tail(s), 10 * acc + DigitValue(Head(s)))

\* Number(s) for a string of digits and letters: [finite, val], NaN being
\* [finite |-> FALSE]
NumberOfString(s) ==
    IF Trim(s) = <<>> THEN [finite |-> TRUE, val |-> 0]
    ELSE IF \A i \in 1 .. Len(Trim(s)) : Trim(s)[i] \in {"0", "1", "2", "3", "4", "5", "6", "7", "8", "9"}
    THEN [finite |-> TRUE, val |-> DecimalValue(Trim(s), 0)]
    ELSE [finite |-> FALSE, val |-> 0]

\* the hex digest of HMAC-SHA256(secret, message), as a function of both
hmacHex(secret, message) == secret \o <<"#">> \o message


timingSafeEqualHex(a, b) ==
    IF Len(a) # Len(b) THEN FALSE
    ELSE \A i \in 1 .. Len(a) : a[i] = b[i]

\* typeof v === "string" for a field of the parsed payload
IsJsonString(v) == v = "<string>"

InvalidPayload(m) == [name |-> "Error", message |-> "Invalid webhook payload: " \o m]

\* parseEvent(payload): the error it throws, or the value it returns
parseEvent(p) ==
    IF p.json = "invalid"
    THEN [err |-> [name |-> "SyntaxError", message |-> "JSON.parse"], value |-> NoResult]
    ELSE IF p.json \notin {"object", "array"}
    THEN [err |-> InvalidPayload("not an object"), value |-> NoResult]
    ELSE IF ~IsJsonString(p.id)
    THEN [err |-> InvalidPayload("id must be a string"), value |-> NoResult]
    ELSE IF ~IsJsonString(p.type)
    THEN [err |-> InvalidPayload("type must be a string"), value |-> NoResult]
    ELSE IF ~IsJsonString(p.createdAt)
    THEN [err |-> InvalidPayload("createdAt must be a string"), value |-> NoResult]
    ELSE [err |-> NoErr,
          value |-> [kind |-> "event", id |-> p.id, type |-> p.type,
                     createdAt |-> p.createdAt,
                     data |-> (IF p.data = Absent THEN Undefined ELSE p.data)]]

-----------------------------------------------------------------------------
(* Jobs.stream() and Jobs.wait() *)

\* the signal stream() was given: wait() passes its controller's signal
SigPresent == mode = "wait" \/ hasSignal

\* wait() handing opts.signal to stream() in place of controller.signal
SigAborted_CallerSignal == hasSignal /\ callerAborted

SigAborted == IF mode = "wait" THEN ctrlAborted ELSE hasSignal /\ callerAborted

\* an SSE connection of streamSSE is open (its timer armed, its listener on)
ConnOpen == gpc \in {"connecting", "reading", "yielded"}

JobsIdle ==
    /\ mode = "none" /\ hasSignal = FALSE /\ callerAborted = FALSE
    /\ wpc = "init" /\ ctrlAborted = FALSE /\ waitTimer = "none"
    /\ wres = NoJob /\ werr = NoErr
    /\ gpc = "notStarted" /\ retries = 0 /\ lastEventId = Undefined
    /\ sseEvent = NoFrame /\ connAborted = FALSE /\ bodyClosed = FALSE
    /\ gerr = NoErr
    /\ yielded = <<>> /\ onEventCalls = <<>>
    /\ nConns = 0 /\ sentLastEventId = NoHeader /\ nFrames = 0
    /\ lastFrameEvent = Undefined
    /\ lastFrameId = Undefined
    /\ abortedInBackoff = FALSE /\ nConnsAborted = 0
    /\ failsSinceYield = 0

ClientIdle ==
    /\ op = "none" /\ arg = NoArg /\ cpc = "none" /\ cerr = NoErr
    /\ cres = NoResult /\ requested = "none" /\ checksDone = <<>>

RequestIdle ==
    /\ req = [retryable |-> FALSE, hasSignal |-> FALSE, method |-> "GET",
              idempotencyKey |-> Undefined, requestId |-> Undefined]
    /\ optsMaxRetries = 0 /\ hookThrows = "none" /\ rpc = "none" /\ attempt = 0
    /\ reqAborted = FALSE /\ nFetch = 0 /\ lastOutcome = NoOutcome
    /\ sleepMs = NoMs /\ backoffUsed = FALSE /\ rerr = NoErr /\ rres = NoRes
    /\ headers = NoHeaders /\ sent = <<>>

\* a stream() or wait() call is about to be made, of the kinds in modes
InitJobs(modes) ==
    /\ mode \in modes
    /\ hasSignal \in BOOLEAN
    /\ callerAborted \in (IF hasSignal THEN BOOLEAN ELSE {FALSE})
    /\ wpc = "init" /\ ctrlAborted = FALSE /\ waitTimer = "none"
    /\ wres = NoJob /\ werr = NoErr
    /\ gpc = "notStarted" /\ retries = 0 /\ lastEventId = Undefined
    /\ sseEvent = NoFrame /\ connAborted = FALSE /\ bodyClosed = FALSE
    /\ gerr = NoErr
    /\ yielded = <<>> /\ onEventCalls = <<>>
    /\ nConns = 0 /\ sentLastEventId = NoHeader /\ nFrames = 0
    /\ lastFrameEvent = Undefined
    /\ lastFrameId = Undefined
    /\ abortedInBackoff = FALSE /\ nConnsAborted = 0
    /\ failsSinceYield = 0

Init == RequestIdle /\ InitJobs({"stream", "wait"}) /\ ClientIdle

\* what the end of the generator means to wait(): a throw propagates out of
\* the for-await loop, a normal completion ends the loop and wait() throws
\* its timeout JobFailedError; the finally block clears the timer
WaitSees(pc2, err2) ==
    IF mode = "wait" /\ wpc = "running" /\ pc2 \in {"threw", "done"}
    THEN /\ wpc' = "rejected"
         /\ werr' = (IF pc2 = "threw" THEN err2
                     ELSE JobFailedError(WaitedJobId, TimedOutMessage, Undefined))
         /\ waitTimer' = ClearTimeout(waitTimer)
         /\ UNCHANGED <<ctrlAborted, wres>>
    ELSE UNCHANGED waitVars

\* stream() throws, or sleeps in backoff(retries), as o says
GenFails(o) ==
    /\ retries' = o.retries
    /\ gpc' = (IF o.throws THEN "threw" ELSE "backoff")
    /\ gerr' = o.err
    /\ failsSinceYield' = failsSinceYield + 1
    /\ WaitSees(IF o.throws THEN "threw" ELSE "backoff", o.err)

\* an exception reaches the catch block of stream(); lid is lastEventId then
GenCatch(error, lid) == GenFails(StreamCatch(error, retries, lid, SigAborted))

\* nConns counts the fetch calls as far as a server that sends MaxFrames
\* frames can bring it: the first one, and StreamMaxRetries - 1 reconnections
\* at the start and after each frame. It stays there
MaxConns == 1 + (StreamMaxRetries - 1) * (MaxFrames + 1)

\* The head of the while loop and streamSSE up to its fetch call: either the
\* already-aborted signal makes streamSSE throw, or the GET is issued
OpenConnection ==
    IF SigPresent /\ SigAborted
    THEN /\ GenCatch(makeAbortError, lastEventId)
         /\ UNCHANGED <<nConns, sentLastEventId, connAborted, bodyClosed,
                        nConnsAborted>>
    ELSE /\ gpc' = "connecting"
         /\ nConns' = Min(nConns + 1, MaxConns)
         /\ sentLastEventId' = LastEventIdHeader(lastEventId)
         /\ connAborted' = FALSE
         /\ bodyClosed' = FALSE
         /\ nConnsAborted' = nConnsAborted + (IF SigAborted THEN 1 ELSE 0)
         /\ UNCHANGED <<retries, gerr, failsSinceYield>>
         /\ UNCHANGED waitVars

\* the consumer of stream() calls next() for the first time
StreamStart ==
    /\ mode = "stream" /\ gpc = "notStarted"
    /\ OpenConnection
    /\ UNCHANGED <<clientVars, reqVars, callerVars, lastEventId, sseEvent, yielded,
                   onEventCalls, nFrames, lastFrameEvent, lastFrameId,
                   abortedInBackoff>>

\* wait() is called: timer armed, the already-aborted test, then the
\* for-await loop starts stream()
WaitStart ==
    /\ mode = "wait" /\ wpc = "init"
    /\ IF hasSignal /\ callerAborted
       THEN /\ wpc' = "rejected"
            /\ werr' = makeAbortError
            /\ waitTimer' = "cleared"
            /\ UNCHANGED <<ctrlAborted, wres, gpc, retries, gerr, nConns,
                           sentLastEventId, connAborted, bodyClosed,
                           nConnsAborted, failsSinceYield>>
       ELSE /\ wpc' = "running"
            /\ waitTimer' = "armed"
            /\ gpc' = "connecting"
            /\ nConns' = nConns + 1
            /\ sentLastEventId' = LastEventIdHeader(lastEventId)
            /\ connAborted' = FALSE
            /\ bodyClosed' = FALSE
            /\ UNCHANGED <<ctrlAborted, wres, werr, retries, gerr, nConnsAborted,
                           failsSinceYield>>
    /\ UNCHANGED <<clientVars, reqVars, callerVars, lastEventId, sseEvent, yielded,
                   onEventCalls, nFrames, lastFrameEvent, lastFrameId,
                   abortedInBackoff>>

\* the backoff sleep ends: back to the head of the while loop
BackoffDone ==
    /\ gpc = "backoff"
    /\ OpenConnection
    /\ UNCHANGED <<clientVars, reqVars, callerVars, lastEventId, sseEvent, yielded,
                   onEventCalls, nFrames, lastFrameEvent, lastFrameId,
                   abortedInBackoff>>

\* the stream-open GET is answered 2xx with a body
ConnectOk ==
    /\ gpc = "connecting" /\ ~connAborted
    /\ gpc' = "reading"
    /\ UNCHANGED <<clientVars, reqVars, callerVars, waitVars, histVars, retries, lastEventId,
                   sseEvent, connAborted, bodyClosed, gerr, yielded, onEventCalls, nConns,
                   sentLastEventId, nFrames, failsSinceYield>>

\* streamSSE throws e for the stream-open GET, inside the try block of stream()
ConnectFailsWith(e) ==
    /\ gpc = "connecting" /\ ~connAborted
    /\ GenCatch(e, lastEventId)
    /\ UNCHANGED <<clientVars, reqVars, callerVars, histVars, lastEventId, sseEvent,
                   connAborted, bodyClosed, yielded, onEventCalls, nConns, sentLastEventId,
                   nFrames>>

\* the stream-open GET fails: a non-2xx response, fetch rejecting with a
\* network failure, or a response without a body
ConnectFails ==
    \E e \in {coerceApiError(st, NoHeader) : st \in {401, 404, 422, 429, 500}}
                 \cup {ThrownError("TypeError"),
                       MappaError("SSE response has no body", Undefined)} :
        ConnectFailsWith(e)

\* the connection's controller was aborted (per-attempt timer, or the signal):
\* the pending fetch or reader.read() rejects with makeAbortError()
ConnAbortedRejects ==
    /\ gpc \in {"connecting", "reading"} /\ connAborted /\ ~bodyClosed
    /\ GenCatch(makeAbortError, lastEventId)
    /\ UNCHANGED <<clientVars, reqVars, callerVars, histVars, lastEventId, sseEvent,
                   connAborted, bodyClosed, yielded, onEventCalls, nConns, sentLastEventId,
                   nFrames>>

\* the record of the events yielded, or handed to onEvent, holds the last
\* MaxFrames of them
LastEvents(q) == IF Len(q) > MaxFrames THEN Tail(q) ELSE q

\* parseSSEStream hands the next frame, one of fs, to the for-await loop of
\* stream(): the loop body up to the return of opts.onEvent. The server
\* sends MaxFrames frames, or frames without end (nFrames then stays at
\* MaxFrames)
RecvFrameOf(fs, endless) ==
    /\ gpc = "reading" /\ (endless \/ nFrames < MaxFrames)
    /\ \E f \in fs :
         /\ lastEventId' = f.id
         /\ nFrames' = Min(nFrames + 1, MaxFrames)
         /\ lastFrameEvent' = f.event
         /\ lastFrameId' = f.id
         /\ IF f.event = "error"
            THEN /\ GenCatch(SSEErrorOf(f), f.id)
                 /\ sseEvent' = NoFrame
                 /\ UNCHANGED <<yielded, onEventCalls>>
            ELSE IF SkipsFrame(f)
            THEN /\ sseEvent' = NoFrame
                 /\ retries' = RetriesAfterHeartbeat(retries)
                 /\ UNCHANGED <<gpc, gerr, yielded, onEventCalls, waitVars,
                                failsSinceYield>>
            ELSE /\ sseEvent' = f
                 /\ onEventCalls' = LastEvents(Append(onEventCalls, mapSSEToJobEvent(f)))
                 /\ gpc' = "callback"
                 /\ UNCHANGED <<retries, gerr, yielded, waitVars, failsSinceYield>>
    /\ UNCHANGED <<clientVars, reqVars, callerVars, abortedInBackoff, nConnsAborted,
                   connAborted, bodyClosed, nConns, sentLastEventId>>

RecvFrame == RecvFrameOf(Frames, FALSE)

\* opts.onEvent has returned: yield jobEvent
YieldEvent ==
    /\ gpc = "callback"
    /\ yielded' = LastEvents(Append(yielded, mapSSEToJobEvent(sseEvent)))
    /\ gpc' = "yielded"
    /\ failsSinceYield' = 0
    /\ UNCHANGED <<clientVars, reqVars, callerVars, waitVars, histVars, retries,
                   lastEventId, sseEvent, connAborted, bodyClosed, gerr, onEventCalls,
                   nConns, sentLastEventId, nFrames>>

\* the connection ends cleanly (reader.read() reports done); a body that
\* closed before the controller was aborted is not errored by the abort
StreamEnd ==
    /\ gpc = "reading" /\ (~connAborted \/ bodyClosed)
    /\ GenFails(StreamEnded(retries, lastEventId))
    /\ UNCHANGED <<clientVars, reqVars, callerVars, histVars, lastEventId, sseEvent,
                   connAborted, bodyClosed, yielded, onEventCalls, nConns, sentLastEventId,
                   nFrames>>

\* reader.read() rejects with a network failure
ReadError ==
    /\ gpc = "reading" /\ ~connAborted /\ ~bodyClosed
    /\ GenCatch(ThrownError("TypeError"), lastEventId)
    /\ UNCHANGED <<clientVars, reqVars, callerVars, histVars, lastEventId, sseEvent,
                   connAborted, bodyClosed, yielded, onEventCalls, nConns, sentLastEventId,
                   nFrames>>

\* stream() is resumed after its yield: return after a terminal event, else
\* retries = 0 and on to the next frame
Resume ==
    /\ sseEvent' = NoFrame
    /\ IF ExitsAfter(sseEvent)
       THEN /\ gpc' = "done"
            /\ UNCHANGED retries
            /\ WaitSees("done", NoErr)
       ELSE /\ gpc' = "reading"
            /\ retries' = RetriesAfterEvent(retries)
            /\ UNCHANGED waitVars

\* the consumer of stream() asks for the next event
ConsumerNext ==
    /\ mode = "stream" /\ gpc = "yielded"
    /\ Resume
    /\ UNCHANGED <<clientVars, reqVars, callerVars, histVars, lastEventId,
                   connAborted, bodyClosed, gerr, yielded, onEventCalls, nConns,
                   sentLastEventId, nFrames, failsSinceYield>>

\* the body of wait()'s for-await loop runs on the event just yielded; a
\* return or throw closes the generator at its yield
WaitHandle ==
    /\ mode = "wait" /\ wpc = "running" /\ gpc = "yielded"
    /\ LET o == WaitOnEvent(Last(yielded)) IN
         IF o.kind = "continue"
         THEN Resume
         ELSE /\ wpc' = (IF o.kind = "return" THEN "resolved" ELSE "rejected")
              /\ wres' = o.job
              /\ werr' = o.err
              /\ waitTimer' = ClearTimeout(waitTimer)
              /\ gpc' = "done"
              /\ sseEvent' = NoFrame
              /\ UNCHANGED <<ctrlAborted, retries>>
    /\ UNCHANGED <<clientVars, reqVars, callerVars, histVars, lastEventId,
                   connAborted, bodyClosed, gerr, yielded, onEventCalls, nConns,
                   sentLastEventId, nFrames, failsSinceYield>>

\* the server ends the response while stream() is suspended at its yield
\* with nothing left to read: the body stream closes
ServerCloses ==
    /\ gpc = "yielded" /\ ~connAborted /\ ~bodyClosed
    /\ bodyClosed' = TRUE
    /\ UNCHANGED <<clientVars, reqVars, callerVars, waitVars, histVars, gpc, retries,
                   lastEventId, sseEvent, connAborted, gerr, yielded,
                   onEventCalls, nConns, sentLastEventId, nFrames, failsSinceYield>>

\* streamSSE's per-attempt timer fires: its controller aborts
SseTimeout ==
    /\ ConnOpen /\ ~connAborted
    /\ connAborted' = TRUE
    /\ UNCHANGED <<clientVars, reqVars, callerVars, waitVars, histVars, gpc, retries,
                   lastEventId, sseEvent, bodyClosed, gerr, yielded,
                   onEventCalls, nConns, sentLastEventId, nFrames, failsSinceYield>>

\* stream()'s signal becomes aborted: the listener of an open connection
\* aborts that connection's controller
SignalAborts ==
    /\ connAborted' = (connAborted \/ ConnOpen)
    /\ abortedInBackoff' = (abortedInBackoff \/ gpc = "backoff")

\* the caller aborts opts.signal; wait()'s listener aborts its controller
\* (an abort made by opts.onEvent itself is seen once the callback returned)
CallerAbort ==
    /\ hasSignal /\ ~callerAborted /\ gpc # "callback"
    /\ IF mode = "wait" THEN wpc = "running" ELSE gpc \notin {"done", "threw"}
    /\ callerAborted' = TRUE
    /\ IF mode = "wait"
       THEN /\ ctrlAborted' = TRUE
            /\ IF ctrlAborted
               THEN UNCHANGED <<connAborted, abortedInBackoff>>
               ELSE SignalAborts
       ELSE /\ SignalAborts
            /\ UNCHANGED ctrlAborted
    /\ UNCHANGED <<clientVars, reqVars, mode, hasSignal, wpc, waitTimer, wres, werr, gpc,
                   retries, lastEventId, sseEvent, bodyClosed, gerr, yielded, onEventCalls,
                   nConns, sentLastEventId, nFrames, lastFrameEvent, lastFrameId,
                   nConnsAborted, failsSinceYield>>

\* wait()'s overall timer fires: controller.abort()
WaitTimeout ==
    /\ mode = "wait" /\ wpc = "running" /\ waitTimer = "armed"
    /\ gpc # "callback"
    /\ waitTimer' = "fired"
    /\ ctrlAborted' = TRUE
    /\ IF ctrlAborted
       THEN UNCHANGED <<connAborted, abortedInBackoff>>
       ELSE SignalAborts
    /\ UNCHANGED <<clientVars, reqVars, callerVars, wpc, wres, werr, gpc, retries,
                   lastEventId, sseEvent, bodyClosed, gerr, yielded, onEventCalls, nConns,
                   sentLastEventId, nFrames, lastFrameEvent,
                   lastFrameId, nConnsAborted, failsSinceYield>>

Next ==
    \/ StreamStart
    \/ WaitStart
    \/ BackoffDone
    \/ ConnectOk
    \/ ConnectFails
    \/ ConnAbortedRejects
    \/ RecvFrame
    \/ YieldEvent
    \/ StreamEnd
    \/ ReadError
    \/ ConsumerNext
    \/ WaitHandle
    \/ ServerCloses
    \/ SseTimeout
    \/ CallerAbort
    \/ WaitTimeout

Spec == Init /\ [][Next]_vars

-----------------------------------------------------------------------------
(* Jobs.wait() against a server that may go on for ever: it may send frames
   without end, keep a connection open, or drop every connection. What the
   program and its timers do is fair: an armed timer fires, a sleep ends, an
   aborted fetch or read rejects, a closed body reports its end, the
   for-await loops go on. What the server does is not. The timer, the
   rejection and the end of the body wait for the loop body to finish its
   synchronous part, which it does every time round: they are strongly
   fair. *)

\* one frame of each kind
FairFrames ==
    { Frame("e1", "status", RunningJob, NoJobError),
      Frame(Undefined, "heartbeat", NoJob, NoJobError),
      Frame("e2", "terminal", Job("job_1", "succeeded", NoJobError, "rep_1"), NoJobError),
      Frame("e2", "terminal", Job("job_1", "failed", NoJobError, Undefined), NoJobError),
      Frame("e2", "terminal", RunningJob, NoJobError),
      Frame(Undefined, "error", NoJob, NoJobError) }

InitWaitFair == RequestIdle /\ InitJobs({"wait"}) /\ ClientIdle

RecvFrameEndless == RecvFrameOf(FairFrames, TRUE)

NextWaitFair ==
    \/ WaitStart
    \/ BackoffDone
    \/ ConnectOk
    \/ ConnectFails
    \/ ConnAbortedRejects
    \/ RecvFrameEndless
    \/ YieldEvent
    \/ StreamEnd
    \/ ReadError
    \/ WaitHandle
    \/ ServerCloses
    \/ SseTimeout
    \/ CallerAbort
    \/ WaitTimeout

SpecWaitFair ==
    /\ InitWaitFair
    /\ [][NextWaitFair]_vars
    /\ WF_vars(WaitStart)
    /\ WF_vars(YieldEvent)
    /\ WF_vars(WaitHandle)
    /\ WF_vars(BackoffDone)
    /\ SF_vars(WaitTimeout)
    /\ SF_vars(ConnAbortedRejects)
    /\ SF_vars(bodyClosed /\ StreamEnd)

-----------------------------------------------------------------------------
(* Jobs.stream() and Jobs.wait() given an opts.onEvent that may throw, against
   the server of SpecWaitFair *)

\* opts.onEvent(jobEvent) throws: the call sits in the try block of stream()
OnEventThrows ==
    /\ gpc = "callback"
    /\ GenCatch(ThrownError("OnEventError"), lastEventId)
    /\ UNCHANGED <<clientVars, reqVars, callerVars, histVars, lastEventId, sseEvent,
                   connAborted, bodyClosed, yielded, onEventCalls, nConns, sentLastEventId,
                   nFrames>>

NextOnEvent ==
    \/ NextWaitFair
    \/ StreamStart
    \/ ConsumerNext
    \/ OnEventThrows

SpecOnEvent == Init /\ [][NextOnEvent]_vars

-----------------------------------------------------------------------------
(* Transport.request() *)

\* request() is about to be called, with a telemetry whose throwing hook is
\* one of hooks
InitRequestWith(hooks) ==
    /\ req \in [retryable : BOOLEAN, hasSignal : BOOLEAN, method : {"GET"},
                idempotencyKey : {Undefined}, requestId : {Undefined}]
    /\ optsMaxRetries \in -1 .. MaxCfgRetries
    /\ hookThrows \in hooks
    /\ rpc = "init"
    /\ attempt = 0
    /\ reqAborted \in (IF req.hasSignal THEN BOOLEAN ELSE {FALSE})
    /\ nFetch = 0
    /\ lastOutcome = NoOutcome
    /\ sleepMs = NoMs
    /\ backoffUsed = FALSE
    /\ rerr = NoErr
    /\ rres = NoRes
    /\ headers = NoHeaders
    /\ sent = <<>>
    /\ JobsIdle
    /\ ClientIdle

\* the telemetry hooks, if any, do not throw
InitRequest == InitRequestWith({"none"})

\* request() throws err
ReqThrow(err) ==
    /\ rpc' = "threw"
    /\ rerr' = err

\* the head of the for loop without the already-aborted test
AttemptHead_NoAbortTest(att) ==
    /\ attempt' = att
    /\ IF att > 1 + maxRetries
       THEN /\ ReqThrow(ThrownError("Unexpected transport exit"))
            /\ UNCHANGED <<nFetch, sent>>
       ELSE IF hookThrows = "onRequest"
       THEN /\ ReqThrow(HookError)
            /\ UNCHANGED <<nFetch, sent>>
       ELSE /\ rpc' = "fetch"
            /\ nFetch' = nFetch + 1
            /\ sent' = Append(sent, HeadersSent(headers', att))
            /\ UNCHANGED rerr

\* One pass through the head of the for loop with loop variable att:
\* the loop test, the already-aborted test, then the fetch call, which is
\* handed the headers object built before the loop (headers')
AttemptHead(att) ==
    /\ attempt' = att
    /\ IF att > 1 + maxRetries
       THEN /\ ReqThrow(ThrownError("Unexpected transport exit"))
            /\ UNCHANGED <<nFetch, sent>>
       ELSE IF req.hasSignal /\ reqAborted
       THEN /\ ReqThrow(makeAbortError)
            /\ UNCHANGED <<nFetch, sent>>
       ELSE IF hookThrows = "onRequest"
       THEN /\ ReqThrow(HookError)
            /\ UNCHANGED <<nFetch, sent>>
       ELSE /\ rpc' = "fetch"
            /\ nFetch' = nFetch + 1
            /\ sent' = Append(sent, HeadersSent(headers', att))
            /\ UNCHANGED rerr

\* The attempt failed with err (the non-2xx branch or the catch block):
\* telemetry.onError is called, and a throw of it leaves request() through
\* the catch block, where onError is called and throws again; otherwise
\* sleep and continue, or throw
AttemptFailed(err, pct) ==
    LET decision == shouldRetry(req, err) IN
    IF hookThrows = "onError"
    THEN /\ ReqThrow(HookError)
         /\ UNCHANGED <<sleepMs, backoffUsed>>
    ELSE IF RetryNow(decision, attempt)
    THEN LET d == RetryDelay(decision, attempt, pct) IN
         /\ rpc' = "sleep"
         /\ sleepMs' = d.ms
         /\ backoffUsed' = d.backoff
         /\ UNCHANGED rerr
    ELSE /\ ReqThrow(err)
         /\ UNCHANGED <<sleepMs, backoffUsed>>

\* request() is called: the headers are built, then the first loop pass
ReqStart ==
    /\ UNCHANGED <<jobVars, clientVars>>
    /\ rpc = "init"
    /\ headers' = RequestHeaders(req)
    /\ AttemptHead(1)
    /\ UNCHANGED <<req, optsMaxRetries, hookThrows, reqAborted, lastOutcome, sleepMs,
                   backoffUsed, rres>>

\* fetch resolves with a response
ReqResponse ==
    /\ UNCHANGED <<jobVars, clientVars>>
    /\ rpc = "fetch"
    /\ \E r \in Responses, pct \in JitterPcts :
         /\ lastOutcome' = r
         /\ IF ResOk(r.status) /\ hookThrows = "onResponse"
            THEN /\ AttemptFailed(HookError, pct)
                 /\ UNCHANGED rres
            ELSE IF ResOk(r.status)
            THEN /\ rpc' = "resolved"
                 /\ rres' = [status |-> r.status]
                 /\ UNCHANGED <<rerr, sleepMs, backoffUsed>>
            ELSE /\ AttemptFailed(coerceApiError(r.status, r.retryAfter), pct)
                 /\ UNCHANGED rres
    /\ UNCHANGED <<req, optsMaxRetries, hookThrows, attempt, reqAborted, nFetch,
                   headers, sent>>

\* fetch rejects: a network failure (TypeError) or any other exception
ReqFetchThrows ==
    /\ UNCHANGED <<jobVars, clientVars>>
    /\ rpc = "fetch"
    /\ \E n \in {"TypeError", "Error"}, pct \in JitterPcts :
         /\ lastOutcome' = [kind |-> "threw", name |-> n]
         /\ AttemptFailed(ThrownError(n), pct)
    /\ UNCHANGED <<req, optsMaxRetries, hookThrows, attempt, reqAborted, nFetch, rres,
                   headers, sent>>

\* the per-attempt timer fires while the fetch is in flight: the controller
\* aborts with makeAbortError() and fetch rejects with it
ReqTimeout ==
    /\ UNCHANGED <<jobVars, clientVars>>
    /\ rpc = "fetch"
    /\ lastOutcome' = [kind |-> "threw", name |-> "AbortError"]
    /\ \E pct \in JitterPcts : AttemptFailed(makeAbortError, pct)
    /\ UNCHANGED <<req, optsMaxRetries, hookThrows, attempt, reqAborted, nFetch, rres,
                   headers, sent>>

\* the caller aborts req.signal: during a fetch the listener aborts the
\* controller and fetch rejects; during the sleep nothing listens
ReqCallerAbort ==
    /\ UNCHANGED <<jobVars, clientVars>>
    /\ req.hasSignal /\ ~reqAborted
    /\ rpc \in {"fetch", "sleep"}
    /\ reqAborted' = TRUE
    /\ IF rpc = "fetch"
       THEN /\ lastOutcome' = [kind |-> "threw", name |-> "AbortError"]
            /\ \E pct \in JitterPcts : AttemptFailed(makeAbortError, pct)
       ELSE UNCHANGED <<rpc, rerr, sleepMs, backoffUsed, lastOutcome>>
    /\ UNCHANGED <<req, optsMaxRetries, hookThrows, attempt, nFetch, rres, headers, sent>>

\* the backoff sleep ends: continue, attempt++
ReqSleepDone ==
    /\ UNCHANGED <<jobVars, clientVars>>
    /\ rpc = "sleep"
    /\ UNCHANGED headers
    /\ AttemptHead(attempt + 1)
    /\ UNCHANGED <<req, optsMaxRetries, hookThrows, reqAborted, lastOutcome, sleepMs,
                   backoffUsed, rres>>

NextRequest ==
    \/ ReqStart
    \/ ReqResponse
    \/ ReqFetchThrows
    \/ ReqTimeout
    \/ ReqCallerAbort
    \/ ReqSleepDone

SpecRequest == InitRequest /\ [][NextRequest]_vars

\* request() under fair scheduling: the call is made, a sleep ends, and the
\* per-attempt timer fires on a fetch that has not settled by then
SpecRequestFair ==
    /\ InitRequest
    /\ [][NextRequest]_vars
    /\ WF_vars(ReqStart)
    /\ WF_vars(ReqSleepDone)
    /\ WF_vars(ReqTimeout)

\* request() under a telemetry of which one hook may throw
InitTelemetry == InitRequestWith({"none", "onRequest", "onResponse", "onError"})

SpecTelemetry == InitTelemetry /\ [][NextRequest]_vars

-----------------------------------------------------------------------------
(* reports.createJob() and feedback.create(), over Transport.request() *)

\* the RequestOptions that createJob, feedback.create and jobs.cancel hand to
\* Transport.request: createJob alone generates a key when it is given none
ClientRequestOptions(a) ==
    [retryable |-> TRUE, hasSignal |-> a.hasSignal, method |-> "POST",
     idempotencyKey |-> IF a.kind = "createJob" /\ a.idempotencyKey = Undefined
                        THEN randomId("idem") ELSE a.idempotencyKey,
     requestId |-> a.requestId]

\* the RequestOptions r the call hands to Transport.request, fixed before it
RequestNotYetCalled(r) ==
    /\ req = r
    /\ hookThrows = "none"
    /\ rpc = "none" /\ attempt = 0
    /\ reqAborted \in (IF r.hasSignal THEN BOOLEAN ELSE {FALSE})
    /\ nFetch = 0 /\ lastOutcome = NoOutcome
    /\ sleepMs = NoMs /\ backoffUsed = FALSE /\ rerr = NoErr /\ rres = NoRes
    /\ headers = NoHeaders /\ sent = <<>>

InitClient ==
    /\ cpc = "called" /\ cerr = NoErr /\ requested = "none"
    /\ cres = NoResult /\ checksDone = <<>>
    /\ arg \in CreateJobArgs \cup FeedbackArgs \cup CancelArgs
    /\ op = arg.kind
    /\ optsMaxRetries \in -1 .. MaxCfgRetries
    /\ RequestNotYetCalled(ClientRequestOptions(arg))
    /\ JobsIdle

\* Transport.request is called with method and path p: the first loop pass
CallRequest(p) ==
    /\ requested' = p
    /\ headers' = RequestHeaders(req)
    /\ AttemptHead(1)
    /\ UNCHANGED <<req, optsMaxRetries, hookThrows, reqAborted, lastOutcome,
                   sleepMs, backoffUsed, rres, cpc, cerr, cres, checksDone>>

\* the call throws e before it called Transport.request
ClientThrows(e) ==
    /\ cpc' = "threw"
    /\ cerr' = e
    /\ UNCHANGED <<cres, requested, checksDone, reqVars>>

\* reports.createJob(req), feedback.create(req) or jobs.cancel(jobId, opts)
\* is called: the validation, if the call has one, then the POST
ClientCall ==
    /\ op \in {"createJob", "feedbackCreate", "jobsCancel"}
    /\ cpc = "called" /\ requested = "none"
    /\ LET e == IF op = "createJob" THEN validateMedia(arg.media)
                 ELSE IF op = "feedbackCreate" THEN validateFeedback(arg)
                 ELSE NoErr
       IN  IF e # NoErr
           THEN ClientThrows(e)
           ELSE CallRequest(IF op = "createJob" THEN "POST /v1/reports/jobs"
                            ELSE IF op = "feedbackCreate" THEN "POST /v1/feedback"
                            ELSE "POST /v1/jobs/:jobId/cancel")
    /\ UNCHANGED <<op, arg, jobVars>>

\* the awaited Transport.request settles, and the call with it
ClientSettles ==
    /\ cpc = "called" /\ requested # "none"
    /\ rpc \in {"resolved", "threw"}
    /\ cpc' = rpc
    /\ cerr' = rerr
    /\ cres' = (IF rpc = "resolved" THEN [kind |-> "response data"] ELSE NoResult)
    /\ UNCHANGED <<op, arg, requested, checksDone, reqVars, jobVars>>

NextClient ==
    \/ ClientCall
    \/ ClientSettles
    \/ ReqResponse
    \/ ReqFetchThrows
    \/ ReqTimeout
    \/ ReqCallerAbort
    \/ ReqSleepDone

SpecClient == InitClient /\ [][NextClient]_vars

-----------------------------------------------------------------------------
(* The wait() of a ReportRunHandle (reports.makeHandle), over Jobs.wait().
   Its report GET is a Transport.request() call of reports.get(): the call is
   recorded in requested and settles one way or the other. *)

InitHandle ==
    /\ op = "handleWait" /\ arg = NoArg
    /\ cpc = "called" /\ cerr = NoErr /\ requested = "none"
    /\ cres = NoResult /\ checksDone = <<>>
    /\ RequestIdle
    /\ InitJobs({"wait"})

\* what the report GET can end in: the Report (NoErr), or an error thrown
ReportGetOutcomes ==
    {NoErr, coerceApiError(404, NoHeader), ThrownError("TypeError")}

\* handle.wait() goes on after its await of jobs.wait(jobId, opts)
HandleAfterWait ==
    /\ op = "handleWait" /\ cpc = "called" /\ requested = "none"
    /\ wpc \in {"resolved", "rejected"}
    /\ IF wpc = "rejected"
       THEN ClientThrows(werr)
       ELSE LET g == ReportToGet(wres) IN
            IF g.err # NoErr
            THEN ClientThrows(g.err)
            ELSE /\ requested' = "GET /v1/reports/" \o g.reportId
                 /\ UNCHANGED <<cpc, cerr, cres, checksDone, reqVars>>
    /\ UNCHANGED <<op, arg, jobVars>>

\* reports.get(reportId) settles, and handle.wait() with it
ReportGetSettles ==
    /\ op = "handleWait" /\ cpc = "called" /\ requested # "none"
    /\ \E o \in ReportGetOutcomes :
         /\ cpc' = (IF o = NoErr THEN "resolved" ELSE "threw")
         /\ cerr' = o
         /\ cres' = (IF o = NoErr THEN [kind |-> "response data"] ELSE NoResult)
    /\ UNCHANGED <<op, arg, requested, checksDone, reqVars, jobVars>>

NextHandle ==
    \/ WaitStart
    \/ BackoffDone
    \/ ConnectOk
    \/ ConnectFails
    \/ ConnAbortedRejects
    \/ RecvFrame
    \/ YieldEvent
    \/ StreamEnd
    \/ ReadError
    \/ WaitHandle
    \/ ServerCloses
    \/ SseTimeout
    \/ CallerAbort
    \/ WaitTimeout
    \/ HandleAfterWait
    \/ ReportGetSettles

SpecHandle == InitHandle /\ [][NextHandle]_vars

-----------------------------------------------------------------------------
(* webhooks.verifySignature() and webhooks.parseEvent() *)

InitWebhooks ==
    /\ arg \in VerifyArgs \cup ParseEventArgs
    /\ op = arg.kind
    /\ cpc = "called" /\ cerr = NoErr /\ cres = NoResult
    /\ requested = "none" /\ checksDone = <<>>
    /\ RequestIdle
    /\ JobsIdle


\* const parts = parseSig(sigHeader), for the header of the call's argument
VerifyParts == parseSig(headerValue(arg.headerName, arg.headerValue).str)

\* verifySignature throws Error(m) after the checks named in done
VerifyThrows(m, done) ==
    /\ cpc' = "threw"
    /\ cerr' = [name |-> "Error", message |-> m]
    /\ checksDone' = done
    /\ UNCHANGED cres

\* verifySignature(params) is called: it runs up to its first await, which
\* is that of crypto.subtle.importKey in hmacHex
VerifyCall ==
    /\ op = "verifySignature" /\ cpc = "called"
    /\ LET sigHeader == headerValue(arg.headerName, arg.headerValue)
           ts == NumberOfString(VerifyParts.t)
       IN  IF Falsy(sigHeader)
           THEN VerifyThrows("Missing mappa-signature header", <<"header">>)
           ELSE IF VerifyParts.err # NoErr
           THEN VerifyThrows(VerifyParts.err.message, <<"header", "format">>)
           ELSE IF ~ts.finite
           THEN VerifyThrows("Invalid signature timestamp",
                             <<"header", "format", "timestamp">>)
           \* Math.abs(nowSec - ts) > (params.toleranceSec ?? 300)
           ELSE IF (IF NowSec < ts.val THEN ts.val - NowSec ELSE NowSec - ts.val)
                     > (IF arg.toleranceSec = NoSec THEN 300 ELSE arg.toleranceSec)
           THEN VerifyThrows("Signature timestamp outside tolerance",
                             <<"header", "format", "timestamp", "tolerance">>)
           ELSE /\ cpc' = "importKey"
                /\ checksDone' = <<"header", "format", "timestamp", "tolerance", "hmac">>
                /\ UNCHANGED <<cerr, cres>>
    /\ UNCHANGED <<op, arg, requested, reqVars, jobVars>>

\* crypto.subtle.importKey resolves: hmacHex goes on to crypto.subtle.sign
HmacKeyImported ==
    /\ op = "verifySignature" /\ cpc = "importKey"
    /\ cpc' = "sign"
    /\ UNCHANGED <<op, arg, cerr, cres, requested, checksDone, reqVars, jobVars>>

\* crypto.subtle.sign resolves: expected is compared with parts.v1
HmacSigned ==
    /\ op = "verifySignature" /\ cpc = "sign"
    /\ LET expected == hmacHex(arg.secret, VerifyParts.t \o <<".">> \o arg.payload)
       IN  IF ~timingSafeEqualHex(expected, VerifyParts.v1)
           THEN VerifyThrows("Invalid signature", Append(checksDone, "compare"))
           ELSE /\ cpc' = "resolved"
                /\ cres' = [kind |-> "ok"]
                /\ checksDone' = Append(checksDone, "compare")
                /\ UNCHANGED cerr
    /\ UNCHANGED <<op, arg, requested, reqVars, jobVars>>

\* parseEvent(payload) is called
ParseEventCall ==
    /\ op = "parseEvent" /\ cpc = "called"
    /\ LET r == parseEvent(arg.payload) IN
         /\ cpc' = (IF r.err = NoErr THEN "resolved" ELSE "threw")
         /\ cerr' = r.err
         /\ cres' = r.value
    /\ UNCHANGED <<op, arg, requested, checksDone, reqVars, jobVars>>

NextWebhooks ==
    \/ VerifyCall
    \/ HmacKeyImported
    \/ HmacSigned
    \/ ParseEventCall

SpecWebhooks == InitWebhooks /\ [][NextWebhooks]_vars

-----------------------------------------------------------------------------
(* One call of either kind: a Transport.request() call, or a Jobs.stream() /
   Jobs.wait() call *)

InitAny == Init \/ InitRequest

NextAny == Next \/ NextRequest

SpecAny == InitAny /\ [][NextAny]_vars

-----------------------------------------------------------------------------
(* Claims about Transport.request(), checked under SpecRequest *)

ReqSettled == rpc \in {"resolved", "threw"}

\* the error class a non-2xx status is reported as
ErrorNameOf(status) ==
    CASE status = 401 \/ status = 403 -> "AuthError"
      [] status = 422 -> "ValidationError"
      [] status = 429 -> "RateLimitError"
      [] OTHER -> "ApiError"

\* the last attempt ended in a response with one of these statuses
LastStatusIn(S) == lastOutcome.kind = "response" /\ lastOutcome.status \in S

\* C5: a retryable request that receives 422, 401 or 403 is not retried: the
\* call throws at once, ValidationError for 422 and AuthError for 401/403,
\* and no HTTP attempt follows the one that got the response (one attempt in
\* all when it is the first response), whatever maxRetries is.
C5_NonRetryableStatuses ==
    (req.retryable /\ LastStatusIn({401, 403, 422}))
      => /\ rpc = "threw"
         /\ rerr.name = (IF lastOutcome.status = 422 THEN "ValidationError"
                         ELSE "AuthError")
         /\ rerr.status = lastOutcome.status
         /\ nFetch = attempt
         /\ (attempt = 1 => nFetch = 1)

C5_Witness ==
    /\ req.retryable /\ optsMaxRetries = 2
    /\ LastStatusIn({422})
    /\ rpc = "threw" /\ rerr.name = "ValidationError" /\ nFetch = 1

\* Retry-After values that are a number of seconds s >= 0, with s
NumericRetryAfter == {<<"0", 0>>, <<"5", 5>>}

\* C6: a retryable request that receives 429 with a numeric Retry-After of
\* s >= 0 seconds and has retry budget left sleeps exactly s * 1000 ms before
\* the next attempt, without the exponential backoff; the backoff is used only
\* when Retry-After is absent or is no number of seconds >= 0.
C6_RetryAfterHonored ==
    (rpc = "sleep" /\ LastStatusIn({429}))
      => /\ \A p \in NumericRetryAfter :
              lastOutcome.retryAfter = p[1]
                => (sleepMs = p[2] * 1000 /\ ~backoffUsed)
         /\ backoffUsed
              => lastOutcome.retryAfter \notin {p[1] : p \in NumericRetryAfter}
         /\ ~backoffUsed
              => lastOutcome.retryAfter \in {p[1] : p \in NumericRetryAfter}

C6_Witness ==
    /\ rpc = "sleep" /\ LastStatusIn({429})
    /\ lastOutcome.retryAfter = "0" /\ sleepMs = 0 /\ ~backoffUsed

\* C7: one request() call issues at most 1 + max(0, maxRetries) HTTP attempts;
\* with maxRetries = 0 it never sleeps for a retry, issues one attempt, and a
\* failed attempt's classified error is what it throws.
C7_AttemptsBounded ==
    /\ nFetch <= 1 + Max(0, optsMaxRetries)
    /\ optsMaxRetries = 0
         => /\ rpc # "sleep"
            /\ nFetch <= 1
            /\ (ReqSettled /\ lastOutcome # NoOutcome) => nFetch = 1
            /\ (rpc = "threw" /\ lastOutcome.kind = "response")
                 => /\ rerr.name = ErrorNameOf(lastOutcome.status)
                    /\ rerr.status = lastOutcome.status
            /\ (rpc = "threw" /\ lastOutcome.kind = "threw")
                 => rerr.name = lastOutcome.name

C7_Witness ==
    /\ optsMaxRetries = 0 /\ req.retryable
    /\ LastStatusIn({429})
    /\ rpc = "threw" /\ rerr.name = "RateLimitError" /\ nFetch = 1

\* C8: a request that is not marked retryable makes one HTTP attempt whatever
\* the outcome (429, 5xx, network failure, other error) and whatever
\* maxRetries is: it never sleeps for a retry.
C8_NotRetryableSingleAttempt ==
    ~req.retryable
      => /\ nFetch <= 1
         /\ rpc # "sleep"
         /\ (ReqSettled /\ lastOutcome # NoOutcome) => nFetch = 1
         /\ (rpc = "threw" /\ lastOutcome.kind = "response")
              => rerr.name = ErrorNameOf(lastOutcome.status)

C8_Witness ==
    /\ ~req.retryable /\ optsMaxRetries = 2
    /\ lastOutcome = [kind |-> "threw", name |-> "TypeError"]
    /\ rpc = "threw" /\ nFetch = 1

\* the last attempt ended in 429, in a 5xx response or in a network failure
RetryClass(o) ==
    \/ o.kind = "response" /\ (o.status = 429 \/ (o.status >= 500 /\ o.status <= 599))
    \/ o.kind = "threw" /\ o.name = "TypeError"

\* C9: when an attempt of a retryable request ends in 429, 5xx or a network
\* failure and fewer than 1 + maxRetries attempts were made, the call goes to
\* the retry sleep (it does not throw), and the sleep is followed by a new
\* HTTP attempt unless the caller aborted; a 2xx response resolves the call
\* at once, and the call resolves in no other way.
C9_RetriedWhileBudget ==
    [][ /\ (rpc = "fetch" /\ rpc' # "fetch" /\ req.retryable
             /\ RetryClass(lastOutcome') /\ nFetch < 1 + Max(0, optsMaxRetries))
          => rpc' = "sleep"
        /\ (rpc = "sleep" /\ rpc' # "sleep" /\ ~reqAborted)
          => (rpc' = "fetch" /\ nFetch' = nFetch + 1)
        /\ (rpc = "fetch" /\ rpc' # "fetch" /\ lastOutcome'.kind = "response"
             /\ ResOk(lastOutcome'.status))
          => (rpc' = "resolved" /\ rres'.status = lastOutcome'.status)
        /\ (rpc # "resolved" /\ rpc' = "resolved")
          => (rpc = "fetch" /\ lastOutcome'.kind = "response"
                /\ ResOk(lastOutcome'.status))
      ]_vars

C9_Witness ==
    /\ req.retryable /\ optsMaxRetries = 2
    /\ rpc = "resolved" /\ nFetch = 3 /\ rres.status = 200

-----------------------------------------------------------------------------
(* Claims about the telemetry hooks of request(), checked under SpecTelemetry *)

\* what request() throws after its last attempt ended as o, when no hook
\* throws: the classified error of the response, or what fetch threw
ClassifiedError(o) ==
    IF o.kind = "response" THEN coerceApiError(o.status, o.retryAfter)
    ELSE IF o.kind = "threw" THEN ThrownError(o.name)
    ELSE NoErr

\* C18: telemetry hooks are observational. Whether or not onRequest,
\* onResponse or onError throws, request() has the outcome the HTTP attempts
\* give it: it never throws what a hook threw, a 2xx response resolves it
\* with that response, an error it throws is the abort error or the
\* classified error of its last attempt, and every loop pass that is not
\* stopped by an aborted signal issues its HTTP attempt.
C18_HooksObservational ==
    /\ rerr # HookError
    /\ (lastOutcome.kind = "response" /\ ResOk(lastOutcome.status))
         => (rpc = "resolved" /\ rres.status = lastOutcome.status)
    /\ rpc = "threw"
         => (rerr = makeAbortError \/ rerr = ClassifiedError(lastOutcome))
    /\ (rpc = "threw" /\ rerr # makeAbortError) => nFetch = attempt

\* C36: when the per-attempt timer fires during an attempt, request() throws
\* an AbortError in that step, whether or not the request is retryable and
\* retry budget is left: it does not sleep for a retry, and no fetch call
\* follows, then or later.
C36_TimeoutNotRetried ==
    [][ /\ ReqTimeout
             => /\ rpc' = "threw" /\ rerr' = makeAbortError
                /\ rerr'.name = "AbortError"
                /\ nFetch' = nFetch /\ attempt' = attempt
        /\ rpc = "threw" => (rpc' = "threw" /\ nFetch' = nFetch /\ rerr' = rerr)
      ]_vars

C36_Witness ==
    /\ rpc = "threw" /\ rerr = makeAbortError /\ ~reqAborted
    /\ req.retryable /\ optsMaxRetries = 2 /\ attempt = 2 /\ nFetch = 2
    /\ lastOutcome = [kind |-> "threw", name |-> "AbortError"]

-----------------------------------------------------------------------------
(* Claims about the termination of Transport.request(), checked under
   SpecRequestFair *)

\* C31: when every fetch attempt settles (a response, a failure, or the abort
\* by the per-attempt timer), request() terminates. It resolves only with the
\* 2xx response of its last attempt, so never after a failed attempt that no
\* successful one followed; what it throws is the classified error of its
\* last attempt (the AbortError of the head of the loop when the caller has
\* aborted), and never the 'Unexpected transport exit' of the fallthrough.
C31_RequestTerminates ==
    /\ <>ReqSettled
    /\ [](rpc = "resolved"
            => /\ lastOutcome.kind = "response" /\ ResOk(lastOutcome.status)
               /\ rres.status = lastOutcome.status)
    /\ [](rpc = "threw"
            => /\ rerr # ThrownError("Unexpected transport exit")
               /\ ~(lastOutcome.kind = "response" /\ ResOk(lastOutcome.status))
               /\ \/ rerr = ClassifiedError(lastOutcome)
                  \/ reqAborted /\ rerr = makeAbortError)

C31_Witness ==
    /\ rpc = "threw" /\ ~reqAborted /\ optsMaxRetries = 2
    /\ attempt = 3 /\ nFetch = 3
    /\ lastOutcome.kind = "response" /\ lastOutcome.status = 503
    /\ rerr = ClassifiedError(lastOutcome)

-----------------------------------------------------------------------------
(* Claims about Jobs.stream() and Jobs.wait(), checked under Spec *)

\* the last JobEvent yielded is a terminal event
TerminalYielded == yielded # <<>> /\ Last(yielded).type = "terminal"

WaitSettled == wpc \in {"resolved", "rejected"}

\* C1: terminal absorption. Once stream() has yielded a terminal JobEvent it
\* yields no further event, calls onEvent no more, opens no further SSE
\* connection and throws nothing: its only further step is to complete, that
\* step is there for the consumer to take (next(), or wait() leaving its
\* loop), and a completed generator stays completed.
C1_TerminalAbsorption ==
    [][ TerminalYielded
          => /\ yielded' = yielded
             /\ onEventCalls' = onEventCalls
             /\ nConns' = nConns
             /\ gpc \in {"yielded", "done"}
             /\ gpc' \in {"yielded", "done"}
             /\ gpc = "done" => gpc' = "done"
             /\ gpc = "yielded" => ENABLED (ConsumerNext \/ WaitHandle)
             /\ (gpc = "yielded" /\ sseEvent' # sseEvent) => gpc' = "done"
      ]_vars

C1_Witness ==
    /\ mode = "stream" /\ TerminalYielded
    /\ Len(yielded) >= 2 /\ gpc = "done" /\ nFrames < MaxFrames

\* C2: wait() returns a Job only when a terminal event whose job.status is
\* succeeded was observed, and the Job returned is that event's job; a
\* terminal event with another status, an abort, a timeout or a stream
\* failure make it reject, and a rejected wait() has returned no Job.
C2_WaitResolvesOnlyOnSucceeded ==
    /\ wpc = "resolved"
         => /\ TerminalYielded
            /\ Last(yielded).job.status = "succeeded"
            /\ wres = Last(yielded).job
    /\ wres # NoJob => wpc = "resolved"
    /\ wpc = "rejected" => (wres = NoJob /\ werr # NoErr)
    /\ (mode = "wait" /\ gpc \in {"done", "threw"}) => WaitSettled
    /\ (mode = "wait" /\ gpc \in {"done", "threw"}
          /\ ~(TerminalYielded /\ Last(yielded).job.status = "succeeded"))
         => wpc = "rejected"

C2_Witness ==
    /\ mode = "wait" /\ wpc = "resolved"
    /\ wres.reportId = "rep_2" /\ Len(yielded) = 2

\* C3: when the terminal event's job has status failed with error
\* {code, message}, wait() rejects with a JobFailedError with that message,
\* that code and the waited job id; when the status is canceled, it rejects
\* with a JobCanceledError carrying the waited job id.
C3_TerminalFailureErrors ==
    (mode = "wait" /\ WaitSettled /\ TerminalYielded)
      => /\ (Last(yielded).job.status = "failed"
               /\ Last(yielded).job.error # NoJobError)
              => /\ wpc = "rejected"
                 /\ werr.name = "JobFailedError"
                 /\ werr.message = Last(yielded).job.error.message
                 /\ werr.code = Last(yielded).job.error.code
                 /\ werr.jobId = WaitedJobId
         /\ Last(yielded).job.status = "canceled"
              => /\ wpc = "rejected"
                 /\ werr.name = "JobCanceledError"
                 /\ werr.jobId = WaitedJobId

C3_Witness ==
    /\ mode = "wait" /\ wpc = "rejected" /\ TerminalYielded
    /\ Last(yielded).job.id = "job_2"
    /\ werr = JobFailedError("job_1", "no credits", "quota")

\* C4: heartbeat filtering. Receiving an SSE frame with event == heartbeat
\* yields no JobEvent and does not call onEvent, wherever the frame comes in
\* the stream; stream() stays waiting for the next frame.
C4_HeartbeatFiltered ==
    [][ (nFrames' = nFrames + 1 /\ lastFrameEvent' = "heartbeat")
          => /\ yielded' = yielded
             /\ onEventCalls' = onEventCalls
             /\ gpc' = "reading"
      ]_vars

C4_Witness ==
    /\ lastFrameEvent = "heartbeat" /\ nFrames = 3 /\ nConns = 1
    /\ Len(yielded) = 1 /\ Len(onEventCalls) = 1 /\ gpc = "reading"

\* C10: cancellation precedence. When stream()'s signal is aborted during a
\* reconnect backoff sleep, stream() can only end by throwing the abort
\* error, never a StreamError, and no SSE connection is opened while the
\* signal is aborted.
C10_AbortDuringBackoff ==
    /\ nConnsAborted = 0
    /\ abortedInBackoff
         => /\ gpc \in {"backoff", "threw"}
            /\ gpc = "threw" => gerr = makeAbortError

C10_Witness ==
    /\ mode = "stream" /\ abortedInBackoff
    /\ gpc = "threw" /\ gerr = makeAbortError /\ nConns = 2

\* stream() threw while the signal it was given was aborted
ThrewWhileAborted == gpc = "threw" /\ SigPresent /\ SigAborted

NoTerminalSeen == \A i \in 1 .. Len(yielded) : yielded[i].type # "terminal"

\* C12: a wait() whose overall timer fired before any terminal event was
\* observed (the caller did not abort) rejects with a JobFailedError that
\* carries the jobId and the timed-out message.
C12_TimeoutIsJobFailedError ==
    (mode = "wait" /\ waitTimer = "fired" /\ ~callerAborted /\ NoTerminalSeen
       /\ wpc = "rejected")
      => /\ werr.name = "JobFailedError"
         /\ werr.jobId = WaitedJobId
         /\ werr.message = TimedOutMessage

\* a frame id that streamSSE puts into the Last-Event-ID header
CarriesId(i) == i # Undefined /\ i # ""

C14_ErrorFrameFatal ==
    lastFrameEvent = "error"
      => /\ gpc = "threw"
         /\ gerr.name = "MappaError"

\* C16: when the reconnect budget of stream() is exhausted (its retry counter
\* reached the maximum, 3) stream() has thrown a StreamError: it neither
\* completed normally nor went on in another way. Every StreamError thrown
\* carries the jobId, the lastEventId held when it was thrown and
\* retryCount = 3.
C16_ExhaustedThrowsStreamError ==
    /\ retries <= 3
    /\ retries >= 3 => (gpc = "threw" /\ gerr.name = "StreamError")
    /\ gerr.name = "StreamError"
         => /\ gpc = "threw"
            /\ retries = 3
            /\ gerr.jobId = WaitedJobId
            /\ gerr.lastEventId = lastEventId
            /\ gerr.lastEventId = lastFrameId
            /\ gerr.retryCount = 3
    /\ (mode = "wait" /\ gerr.name = "StreamError")
         => (wpc = "rejected" /\ werr = gerr)

C16_Witness ==
    /\ gpc = "threw" /\ gerr.name = "StreamError"
    /\ gerr.message = "Failed to get status"
    /\ gerr.lastEventId = "e2" /\ gerr.retryCount = 3 /\ nConns = 3

\* C17: stream() reconnects up to 3 times. When no connection delivers a
\* non-heartbeat event, the stream-failure error is thrown after the initial
\* connection and 3 reconnections, that is after 4 SSE connections.
C17_ThreeReconnections ==
    (gpc = "threw" /\ gerr.name = "StreamError" /\ yielded = <<>>)
      => nConns = 1 + 3

\* C23: the retry counter of stream() is reset to 0 when stream() goes on
\* after a yielded event, so that it counts the connection attempts that
\* failed or were dropped since the last yielded event; a StreamError is
\* thrown only after 3 such attempts in a row, so a stream whose every
\* connection yields an event before it drops is reconnected each time and
\* never throws StreamError.
C23_RetryCounterReset ==
    [][ /\ (gpc = "yielded" /\ gpc' = "reading") => retries' = 0
        /\ gpc' \in {"connecting", "reading", "callback", "backoff"}
             => retries' = failsSinceYield'
        /\ gerr'.name = "StreamError" => failsSinceYield' = StreamMaxRetries
        /\ (gpc = "reading" /\ gpc' = "backoff" /\ failsSinceYield = 0)
             => retries' = 1
      ]_vars

C23_Witness ==
    /\ mode = "stream" /\ nConns = 3 /\ Len(yielded) = 3
    /\ gpc = "backoff" /\ retries = 1 /\ failsSinceYield = 1

\* C24: heartbeat frames do not reset the retry counter. A heartbeat leaves
\* the counter as it is; as long as no event was yielded, every connection
\* that ended or failed has counted against the reconnect budget, heartbeats
\* received or not, and the StreamError is thrown when the third such
\* connection ends.
C24_HeartbeatsDoNotReset ==
    [][ /\ (nFrames' = nFrames + 1 /\ lastFrameEvent' = "heartbeat")
             => (retries' = retries /\ failsSinceYield' = failsSinceYield)
        /\ (onEventCalls' = <<>> /\ gpc' \in {"connecting", "reading"})
             => retries' = nConns' - 1
        /\ (onEventCalls' = <<>> /\ gpc' = "backoff") => retries' = nConns'
        /\ (onEventCalls' = <<>> /\ gerr'.name = "StreamError")
             => (nConns' = StreamMaxRetries /\ retries' = StreamMaxRetries)
      ]_vars

C24_Witness ==
    /\ gpc = "threw" /\ gerr.name = "StreamError" /\ gerr.retryCount = 3
    /\ nFrames = 3 /\ lastFrameEvent = "heartbeat" /\ yielded = <<>>
    /\ nConns = 3

C26_AbortAtStreamEnd ==
    [][ (StreamEnd /\ mode = "stream" /\ hasSignal /\ callerAborted)
          => (gpc' = "threw" /\ gerr' = makeAbortError)
      ]_vars

\* the last event yielded is a terminal event whose job is queued or running
NonFinalTerminal ==
    TerminalYielded /\ Last(yielded).job.status \in {"queued", "running"}

\* C27: a terminal event whose job.status is queued or running is never a
\* success. wait() does not return that job: stream() completes after the
\* event, and wait() rejects with the JobFailedError for the waited job whose
\* message reports the timeout with the configured timeoutMs.
C27_NonFinalTerminalRejects ==
    (mode = "wait" /\ NonFinalTerminal)
      => /\ wpc # "resolved" /\ wres = NoJob
         /\ gpc \in {"yielded", "done"}
         /\ gpc = "done"
              => /\ wpc = "rejected"
                 /\ werr = JobFailedError(WaitedJobId, TimedOutMessage, Undefined)
                 /\ werr.message
                      = "Timed out waiting for job job_1 after 300000ms"

C27_Witness ==
    /\ mode = "wait" /\ NonFinalTerminal
    /\ Last(yielded).job.status = "queued"
    /\ gpc = "done" /\ wpc = "rejected" /\ werr.name = "JobFailedError"
    /\ waitTimer = "cleared" /\ Len(yielded) = 2

\* C29: in every state in which a wait() call has settled (a job returned, a
\* job or stream error thrown, an abort, the already-aborted early exit) its
\* overall timer is not pending: it was cleared, or it had fired; the timer
\* cannot fire after the call settled.
C29_TimerClearedOnSettle ==
    /\ WaitSettled
         => /\ waitTimer \in {"cleared", "fired"}
            /\ ~ENABLED WaitTimeout
    /\ (WaitSettled /\ waitTimer = "fired") => ctrlAborted
    /\ (mode = "wait" /\ waitTimer = "armed") => wpc = "running"

C29_Witness ==
    /\ mode = "wait" /\ wpc = "rejected" /\ werr.name = "StreamError"
    /\ waitTimer = "cleared" /\ ~ctrlAborted /\ nConns = 3

\* the JobEvent that belongs to a frame: its type is the frame's event for
\* stage and terminal and status otherwise, its job is the frame's data.job
IsJobEventOf(ev, f) ==
    /\ ev.type = (IF f.event \in {"stage", "terminal"} THEN f.event ELSE "status")
    /\ ev.job = f.data.job

\* C30: the JobEvents yielded by stream() are the frames received that are
\* neither heartbeat nor error frames, in arrival order, one JobEvent per
\* frame, none dropped, duplicated or reordered. Receiving such a frame calls
\* onEvent once with the frame's JobEvent and nothing is yielded by then; the
\* next step yields that same JobEvent; no other step calls onEvent or
\* yields; a heartbeat or error frame does neither.
C30_FramesYieldedInOrder ==
    [][ /\ (nFrames' = nFrames + 1 /\ lastFrameEvent' \in {"heartbeat", "error"})
             => (onEventCalls' = onEventCalls /\ yielded' = yielded)
        /\ (nFrames' = nFrames + 1 /\ lastFrameEvent' \notin {"heartbeat", "error"})
             => /\ sseEvent'.event = lastFrameEvent' /\ sseEvent'.id = lastFrameId'
                /\ Len(onEventCalls') = Len(onEventCalls) + 1
                /\ SubSeq(onEventCalls', 1, Len(onEventCalls)) = onEventCalls
                /\ IsJobEventOf(Last(onEventCalls'), sseEvent')
                /\ yielded' = yielded
                /\ gpc' = "callback"
        /\ gpc = "callback"
             => /\ yielded' = Append(yielded, Last(onEventCalls))
                /\ onEventCalls' = onEventCalls
                /\ nFrames' = nFrames
                /\ gpc' = "yielded"
        /\ (nFrames' = nFrames /\ gpc # "callback")
             => (onEventCalls' = onEventCalls /\ yielded' = yielded)
        /\ gpc' # "callback" => yielded' = onEventCalls'
        /\ nFrames' \in {nFrames, nFrames + 1}
      ]_vars

C30_Witness ==
    /\ nConns = 1 /\ nFrames = 3 /\ gpc = "yielded"
    /\ lastFrameEvent = "message" /\ Len(yielded) = 2
    /\ yielded[1].type = "stage" /\ yielded[2].type = "status"
    /\ onEventCalls = yielded

\* C32: the per-attempt timeout belongs to one SSE connection. When it has
\* aborted a connection of stream() whose signal is not aborted, the pending
\* fetch or read rejects and stream() handles that like a dropped connection:
\* the retry counter goes up by one, and stream() sleeps for a reconnect or,
\* with the budget used up, throws a StreamError that wraps the AbortError;
\* the AbortError itself is not thrown. The reconnect sends the id of the
\* last frame received, if it carried one, on a connection whose timer has
\* not fired.
C32_TimeoutIsDroppedConnection ==
    [][ /\ (ConnAbortedRejects /\ ~SigAborted)
             => /\ retries' = retries + 1
                /\ gerr'.name # "AbortError"
                /\ IF retries' < StreamMaxRetries
                   THEN gpc' = "backoff" /\ gerr' = NoErr
                   ELSE /\ gpc' = "threw"
                        /\ gerr' = StreamError("Stream connection failed", lastEventId,
                                               StreamMaxRetries, makeAbortError)
        /\ (gpc = "backoff" /\ gpc' = "connecting")
             => /\ ~connAborted'
                /\ sentLastEventId' = LastEventIdHeader(lastFrameId)
      ]_vars

C32_Witness ==
    /\ mode = "stream" /\ ~SigAborted /\ connAborted /\ ~bodyClosed
    /\ gpc = "threw" /\ gerr.name = "StreamError" /\ gerr.cause = makeAbortError
    /\ gerr.lastEventId = "e1" /\ nConns = 3 /\ sentLastEventId = "e1"

\* C33: a 401 or 422 response to the stream-open GET is not retried. The step
\* in which streamSSE throws the AuthError or ValidationError ends stream()
\* with that very error: the retry counter is what it was, and stream()
\* neither sleeps for nor makes another connection.
C33_OpenErrorNotRetried ==
    [][ \A st \in {401, 422} :
          ConnectFailsWith(coerceApiError(st, NoHeader))
            => /\ gpc' = "threw"
               /\ gerr' = coerceApiError(st, NoHeader)
               /\ retries' = retries
      ]_vars

\* C37: once stream() holds the id of a frame as its resumption token, it
\* holds one from then on: no step, the receipt of a frame without id
\* included, unsets lastEventId, and a connection made from then on carries a
\* Last-Event-ID header.
C37_TokenNeverUnset ==
    [][ CarriesId(lastEventId)
          => /\ CarriesId(lastEventId')
             /\ gpc' = "connecting" => sentLastEventId' # NoHeader
      ]_vars

-----------------------------------------------------------------------------
(* Claims about a throwing opts.onEvent, checked under SpecOnEvent *)

\* C38: an exception thrown by opts.onEvent leaves stream() as it is: in the
\* step in which the callback throws, stream() throws that exception, not a
\* StreamError wrapping it, its retry counter is what it was, and it neither
\* sleeps for a reconnect nor makes one.
C38_OnEventErrorPropagates ==
    [][ OnEventThrows
          => /\ gpc' = "threw"
             /\ gerr' = ThrownError("OnEventError")
             /\ retries' = retries
      ]_vars

-----------------------------------------------------------------------------
(* Claims about the termination of Jobs.wait(), checked under SpecWaitFair *)

\* C28: every wait() call eventually settles, whatever the server does: send
\* no terminal event, keep a connection open for ever, or drop every
\* connection after sending events. The overall timer bounds the reconnect
\* loop.
C28_WaitSettles == <>WaitSettled

C28_Witness ==
    /\ mode = "wait" /\ wpc = "rejected" /\ waitTimer = "fired"
    /\ werr = makeAbortError /\ ~callerAborted
    /\ nConns >= 4 /\ retries = 1 /\ NoTerminalSeen /\ Len(yielded) = MaxFrames

-----------------------------------------------------------------------------
(* Claims about all three operations, checked under SpecAny *)

\* C15: an operation started with an already-aborted caller signal throws the
\* abort error without issuing an HTTP request: request() (and, the test
\* being made before every attempt, it issues no attempt once the signal is
\* aborted), stream() over streamSSE() (which likewise opens no connection
\* once the signal is aborted) and wait().
C15_PreAbortedNoRequest ==
    [][ /\ (rpc = "init" /\ rpc' # "init" /\ req.hasSignal /\ reqAborted)
             => (rpc' = "threw" /\ rerr' = makeAbortError /\ nFetch' = 0)
        /\ (req.hasSignal /\ reqAborted) => nFetch' = nFetch
        /\ (gpc = "notStarted" /\ gpc' # "notStarted" /\ SigPresent /\ SigAborted)
             => (gpc' = "threw" /\ gerr' = makeAbortError /\ nConns' = 0)
        /\ (SigPresent /\ SigAborted) => nConns' = nConns
        /\ (wpc = "init" /\ wpc' # "init" /\ hasSignal /\ callerAborted)
             => /\ wpc' = "rejected" /\ werr' = makeAbortError
                /\ nConns' = 0 /\ gpc' = "notStarted"
      ]_vars

C15_Witness ==
    /\ req.hasSignal /\ reqAborted /\ req.retryable /\ optsMaxRetries = 2
    /\ attempt = 1 /\ rpc = "threw" /\ rerr = makeAbortError /\ nFetch = 0

-----------------------------------------------------------------------------
(* Claims about reports.createJob() and feedback.create(), checked under
   SpecClient *)

\* the media handed to reports.createJob() is not an object, carries a url,
\* or lacks a mediaId that is a non-empty string
BadMedia ==
    /\ op = "createJob"
    /\ \/ arg.media.type # "object"
       \/ arg.media.url # Undefined
       \/ arg.media.mediaId \notin {"media_1"}

\* feedback.create() is handed both a reportId and a jobId, or neither
BadFeedback ==
    /\ op = "feedbackCreate"
    /\ \/ arg.reportId = "rep_1" /\ arg.jobId = "job_1"
       \/ arg.reportId = Undefined /\ arg.jobId = Undefined

C34_RetriedPostsCarryKey ==
    req.method = "POST"
      => /\ \A i \in 2 .. Len(sent) : sent[i].idempotencyKey # NoHeader
         /\ (sent # <<>> /\ sent[1].idempotencyKey = NoHeader) => Len(sent) = 1

\* C35: all fetch calls of one request() call send the same X-Request-Id and
\* the same Idempotency-Key: those of the first call, which are the caller's
\* requestId and idempotencyKey where the caller gave them. reports.createJob
\* given no key sends the one key it generated with every attempt.
C35_SameHeadersOnRetries ==
    /\ Len(sent) = nFetch
    /\ \A i \in 1 .. Len(sent) :
         /\ sent[i] = sent[1]
         /\ sent[i].xRequestId # NoHeader
         /\ arg.requestId # Undefined => sent[i].xRequestId = arg.requestId
         /\ arg.idempotencyKey # Undefined => sent[i].idempotencyKey = arg.idempotencyKey
         /\ (op = "createJob" /\ arg.idempotencyKey = Undefined)
              => sent[i].idempotencyKey = randomId("idem")

C35_Witness ==
    /\ op = "createJob" /\ arg.idempotencyKey = Undefined /\ arg.requestId = Undefined
    /\ Len(sent) = 3 /\ cpc = "resolved"
    /\ sent[3] = [xRequestId |-> randomId("req"), idempotencyKey |-> randomId("idem")]

-----------------------------------------------------------------------------
(* Claims about webhooks.verifySignature() and webhooks.parseEvent(), checked
   under SpecWebhooks *)

\* the header string verifySignature reads has a component k=<non-empty>
HasComponent(h, k) ==
    \E i \in 1 .. Len(Split(h, ",")) :
        LET kv == Split(Split(h, ",")[i], "=")
        IN  Len(kv) >= 2 /\ Trim(kv[1]) = k /\ Trim(kv[2]) # <<>>

\* the call is a verifySignature whose header is present
HeaderPresent ==
    /\ op = "verifySignature"
    /\ ~Falsy(headerValue(arg.headerName, arg.headerValue))

\* q is a prefix of the order in which the checks are made
IsPrefixOfCheckOrder(q) ==
    LET order == <<"header", "format", "timestamp", "tolerance", "hmac", "compare">>
    IN  Len(q) <= Len(order) /\ q = SubSeq(order, 1, Len(q))

\* C21: verifySignature rejects a present signature header that lacks the
\* v1= component, or the t= component, with the invalid-format error, and no
\* HMAC computation was started by then; the checks are made in the order
\* header present, header format, timestamp numeric, timestamp within
\* tolerance, HMAC, comparison, each only after those before it passed.
C21_FormatBeforeHmac ==
    /\ IsPrefixOfCheckOrder(checksDone)
    /\ (op = "verifySignature" /\ cpc # "called") => checksDone # <<>>
    /\ (HeaderPresent /\ cpc # "called"
          /\ LET h == headerValue(arg.headerName, arg.headerValue).str
             IN  ~HasComponent(h, <<"v", "1">>) \/ ~HasComponent(h, <<"t">>))
         => /\ cpc = "threw"
            /\ cerr = InvalidFormat
            /\ checksDone = <<"header", "format">>
    /\ cpc \in {"importKey", "sign"} => Last(checksDone) = "hmac"
    /\ (op = "verifySignature" /\ cpc = "resolved") => Len(checksDone) = 6

C21_Witness ==
    /\ HeaderPresent /\ cpc = "threw" /\ cerr = InvalidFormat
    /\ arg.headerValue = JsString(<<"t", "=", "1", "0", "0", "0">>)
    /\ checksDone = <<"header", "format">>

\* the payload handed to parseEvent is a JSON object with a string type and
\* a string timestamp
EnvelopePayload ==
    /\ op = "parseEvent"
    /\ arg.payload.json = "object"
    /\ IsJsonString(arg.payload.type)
    /\ IsJsonString(arg.payload.timestamp)

\* C22: parseEvent accepts any JSON object payload with a string type and a
\* string timestamp, whatever other fields it has or lacks, and returns
\* {type, timestamp, data} with data undefined when absent; it throws for
\* every other payload.
C22_EnvelopeParsed ==
    (op = "parseEvent" /\ cpc # "called")
      => /\ EnvelopePayload
              => /\ cpc = "resolved"
                 /\ cres = [kind |-> "event", type |-> arg.payload.type,
                            timestamp |-> arg.payload.timestamp,
                            data |-> (IF arg.payload.data = Absent THEN Undefined
                                      ELSE arg.payload.data)]
         /\ ~EnvelopePayload => cpc = "threw"

-----------------------------------------------------------------------------
(* Claims about the wait() of a ReportRunHandle, checked under SpecHandle *)

\* C20: handle.wait() issues the report GET only after jobs.wait() returned
\* a succeeded job, and for that job's reportId. When jobs.wait() rejected
\* (job failed or canceled, wait aborted, stream failure) no report GET is
\* issued and handle.wait() throws that error; a succeeded job without
\* reportId makes it throw a MappaError without a GET; it returns a report
\* only from a GET.
C20_ReportGetAfterSucceeded ==
    /\ requested # "none"
         => /\ wpc = "resolved"
            /\ TerminalYielded
            /\ Last(yielded).job.status = "succeeded"
            /\ Last(yielded).job.reportId \in {"rep_1", "rep_2"}
            /\ requested = "GET /v1/reports/" \o Last(yielded).job.reportId
    /\ wpc = "rejected" => (requested = "none" /\ cpc # "resolved")
    /\ (wpc = "rejected" /\ cpc # "called") => (cpc = "threw" /\ cerr = werr)
    /\ (wpc = "resolved" /\ wres.reportId = Undefined)
         => /\ requested = "none" /\ cpc # "resolved"
            /\ cpc # "called" => (cpc = "threw" /\ cerr.name = "MappaError")
    /\ cpc = "resolved" => requested # "none"

C20_Witness ==
    /\ op = "handleWait" /\ cpc = "resolved"
    /\ requested = "GET /v1/reports/rep_2"
    /\ wpc = "resolved" /\ Len(yielded) = 2

====
